---- MODULE Spec2Model ----
(***************************************************************************)
(* TriggerMesh: a CI-trigger gateway.  The model covers the request        *)
(* pipeline (request id -> body limit -> CORS -> mux -> API-key auth),     *)
(* the Jenkins trigger handler with the Jenkins trigger and client, and    *)
(* the audit ledger (table audit_logs).                                    *)
(*                                                                         *)
(* A Go string is a sequence of one-character strings, so that prefix      *)
(* stripping, trimming, length limits and the regular expressions are      *)
(* computed on the characters.  Fixed texts that the code only compares    *)
(* or copies (methods, route paths, messages) are TLA+ strings.            *)
(***************************************************************************)
EXTENDS Integers, Sequences, FiniteSets, TLC

\* ------------------------------------------------------------------ bounds

\* request slots: the number of inbound requests of one behaviour
MaxRequests == 2
\* rows the audit_logs table may hold when the process starts
MaxPreload == 2

\* ------------------------------------------------------- program constants

MaxJobNameLen == 255
MaxParams == 100
MaxParamKeyLen == 255
MaxParamValueLen == 10240
DefaultLimit == 100
DefaultOffset == 0
DefaultMaxBodySize == 1048576

StatusOK == 200
StatusBadRequest == 400
StatusUnauthorized == 401
StatusInternalServerError == 500
StatusServiceUnavailable == 503

\* ------------------------------------------------------------ Go strings

Lower == {"a","b","c","d","e","f","g","h","i","j","k","l","m",
          "n","o","p","q","r","s","t","u","v","w","x","y","z"}
Upper == {"A","B","C","D","E","F","G","H","I","J","K","L","M",
          "N","O","P","Q","R","S","T","U","V","W","X","Y","Z"}
Digit == {"0","1","2","3","4","5","6","7","8","9"}

\* unicode.IsSpace on the characters the model uses
WhiteSpace == {" ", "\t", "\n", "\r"}

Rep(c, n) == [i \in 1..n |-> c]

HasPrefix(s, p) == Len(s) >= Len(p) /\ SubSeq(s, 1, Len(p)) = p

HasSuffix(s, p) == Len(s) >= Len(p) /\ SubSeq(s, Len(s) - Len(p) + 1, Len(s)) = p

Contains(s, p) == \E i \in 1..(Len(s) - Len(p) + 1) : SubSeq(s, i, i + Len(p) - 1) = p

TrimPrefix(s, p) == IF HasPrefix(s, p) THEN SubSeq(s, Len(p) + 1, Len(s)) ELSE s

RECURSIVE TrimLeftSpace(_)
TrimLeftSpace(s) ==
    IF s # <<>> /\ Head(s) \in WhiteSpace THEN TrimLeftSpace(Tail(s)) ELSE s

RECURSIVE TrimRightSpace(_)
TrimRightSpace(s) ==
    IF s # <<>> /\ s[Len(s)] \in WhiteSpace
    THEN TrimRightSpace(SubSeq(s, 1, Len(s) - 1))
    ELSE s

TrimSpace(s) == TrimRightSpace(TrimLeftSpace(s))

\* strings.Split(s, sep) for a one-character separator
RECURSIVE Split(_, _)
Split(s, sep) ==
    IF \E i \in 1..Len(s) : s[i] = sep
    THEN LET i == CHOOSE j \in 1..Len(s) :
                      s[j] = sep /\ \A k \in 1..(j - 1) : s[k] # sep
         IN  <<SubSeq(s, 1, i - 1)>> \o Split(SubSeq(s, i + 1, Len(s)), sep)
    ELSE <<s>>

Bearer == <<"B","e","a","r","e","r"," ">>

\* ------------------------------------------------------------------ state

VARIABLES
    apiKeys,          \* AuthMiddleware.apiKeys: the allow-list
    allowedOrigins,   \* Router.allowedOrigins
    maxBodySize,      \* Router.maxBodySize
    ledger,           \* the rows of table audit_logs, in insertion order
    seq,              \* the AUTOINCREMENT counter of audit_logs
    pc,               \* per request: where its goroutine stands
    req,              \* per request: the inbound *http.Request
    ctx,              \* per request: the values attached to r.Context()
    resp,             \* per request: the http.ResponseWriter
    stages,           \* per request: the chain links entered, in order
    call,             \* per request: the locals of the handler
    sent              \* per request: the requests sent to Jenkins

vars == <<apiKeys, allowedOrigins, maxBodySize, ledger, seq,
          pc, req, ctx, resp, stages, call, sent>>

config == <<apiKeys, allowedOrigins, maxBodySize>>

Slots == 1..MaxRequests


\* ------------------------------------------------------------ data shapes

\* map[string]string of the request body: nil when the member is absent
NilParams == [nil |-> TRUE, m |-> <<>>]

ParamsOf(m) == [nil |-> FALSE, m |-> m]

\* the request body: what json.Decode makes of it, and its length in bytes
EmptyBody == [kind |-> "empty", job |-> <<>>, parameters |-> NilParams, size |-> 0]

MalformedBody == [kind |-> "malformed", job |-> <<>>, parameters |-> NilParams, size |-> 8]

JSONBodyOfSize(job, parameters, n) ==
    [kind |-> "json", job |-> job, parameters |-> parameters, size |-> n]

JSONBody(job, parameters) == JSONBodyOfSize(job, parameters, 64)

\* an inbound request; an absent header or query parameter is the empty string
FullRequest(method, path, authorization, apiKeyQuery, origin, requestID, limit, offset, body) ==
    [method |-> method, path |-> path, authorization |-> authorization,
     api_key_query |-> apiKeyQuery, origin |-> origin, x_request_id |-> requestID,
     limit_query |-> limit, offset_query |-> offset, body |-> body, body_limit |-> -1]

NoRequest == FullRequest("", "", <<>>, <<>>, <<>>, <<>>, <<>>, <<>>, EmptyBody)

\* a Go error: nil, or a message with the value formatted into it
NilErr == [isNil |-> TRUE, msg |-> "", arg |-> <<>>]

Errorf(msg, arg) == [isNil |-> FALSE, msg |-> msg, arg |-> arg]

\* err.Error()
ErrorText(err) == [msg |-> err.msg, arg |-> err.arg]

NoErrorText == [msg |-> "", arg |-> <<>>]

\* engine.BuildResult
BuildResult(success, buildID, buildURL, message, detail) ==
    [success |-> success, build_id |-> buildID, build_url |-> buildURL,
     message |-> message, detail |-> detail]

NoResult == BuildResult(FALSE, <<>>, <<>>, "", NoErrorText)

NoContext == [has_request_id |-> FALSE, request_id |-> <<>>,
              has_api_key |-> FALSE, api_key |-> <<>>, cancelled |-> FALSE]

NoHeaders == [n \in {} |-> <<>>]

NoBody == [kind |-> "none"]

NoResponse == [status |-> 0, headers |-> NoHeaders, body |-> NoBody]

\* no answer of Jenkins to the crumb request yet
NoCrumbAnswer == [kind |-> "none", status |-> 0, crumb |-> <<>>, crumbRequestField |-> <<>>]

\* no answer of Jenkins to the build POST yet
NoAnswer == [kind |-> "none", status |-> 0, location |-> <<>>, body |-> <<>>]

NoCall == [result |-> NoResult, err |-> NilErr, resolved |-> FALSE,
           crumbField |-> <<>>, crumbValue |-> <<>>, answer |-> NoAnswer,
           crumbAnswer |-> NoCrumbAnswer,
           appends |-> 0, inserted |-> FALSE, rowids |-> {},
           limit |-> 0, offset |-> 0, snapshot |-> <<>>]

\* w.Header().Set(name, value)
SetHeader(h, name, value) ==
    [n \in DOMAIN h \cup {name} |-> IF n = name THEN value ELSE h[n]]

\* w.WriteHeader(status) followed by the body
Write(w, status, body) == [w EXCEPT !.status = status, !.body = body]

\* http.Error(w, text, status)
HttpError(w, text, status) ==
    Write([w EXCEPT !.headers = SetHeader(@, "Content-Type", "text/plain; charset=utf-8")],
          status, [kind |-> "text", text |-> text])

\* ------------------------------------------------------ request pipeline

\* crypto/rand gives 16 bytes, hex-encoded; the model draws from two values
GeneratedIDs == {<<"0","a">>, <<"0","b">>}

\* the chain of Router.ServeHTTP, outermost first, ending in the mux
\* the chain with the CORS link put before the body limit
ChainCorsBeforeLimit == <<"requestid", "cors", "bodylimit", "mux">>

Chain == <<"requestid", "bodylimit", "cors", "mux">>

\* the link a request enters after link `stage` calls next.ServeHTTP
NextLink(stage) ==
    LET i == CHOOSE j \in 1..Len(Chain) : Chain[j] = stage
    IN  Chain[i + 1]

Enter(r, stage) ==
    /\ pc' = [pc EXCEPT ![r] = stage]
    /\ stages' = [stages EXCEPT ![r] = Append(@, stage)]

Finish(r) ==
    /\ pc' = [pc EXCEPT ![r] = "done"]
    /\ UNCHANGED stages

\* a request arrives and enters the outermost link of the chain
Receive(r, Requests) ==
    /\ pc[r] = "idle"
    /\ \A q \in Slots : q < r => pc[q] # "idle"
    /\ \E in \in Requests : req' = [req EXCEPT ![r] = in]
    /\ Enter(r, Chain[1])
    /\ UNCHANGED <<config, ledger, seq, ctx, resp, call, sent>>

\* a request of a client that has the answer to its last one
ReceiveNext(r, Requests) ==
    /\ \A q \in Slots : q < r => pc[q] = "done"
    /\ Receive(r, Requests)

RequestIDMiddleware(r) ==
    /\ pc[r] = "requestid"
    /\ \E requestID \in IF req[r].x_request_id = <<>>
                        THEN GeneratedIDs
                        ELSE {req[r].x_request_id} :
          /\ ctx' = [ctx EXCEPT ![r].has_request_id = TRUE, ![r].request_id = requestID]
          /\ resp' = [resp EXCEPT ![r].headers = SetHeader(@, "X-Request-ID", requestID)]
    /\ Enter(r, NextLink("requestid"))
    /\ UNCHANGED <<config, ledger, seq, req, call, sent>>

\* r.Body = http.MaxBytesReader(w, r.Body, maxSize)
LimitBodySize(r) ==
    /\ pc[r] = "bodylimit"
    /\ req' = [req EXCEPT ![r].body_limit = maxBodySize]
    /\ Enter(r, NextLink("bodylimit"))
    /\ UNCHANGED <<config, ledger, seq, ctx, resp, call, sent>>

UpperSeq == <<"A","B","C","D","E","F","G","H","I","J","K","L","M",
              "N","O","P","Q","R","S","T","U","V","W","X","Y","Z">>
LowerSeq == <<"a","b","c","d","e","f","g","h","i","j","k","l","m",
              "n","o","p","q","r","s","t","u","v","w","x","y","z">>

FoldChar(c) ==
    IF c \in Upper THEN LowerSeq[CHOOSE i \in 1..26 : UpperSeq[i] = c] ELSE c

\* strings.EqualFold
EqualFold(s, t) ==
    /\ Len(s) = Len(t)
    /\ \A i \in 1..Len(s) : FoldChar(s[i]) = FoldChar(t[i])

isValidOrigin(origin) ==
    \/ HasPrefix(origin, <<"h","t","t","p",":","/","/">>)
    \/ HasPrefix(origin, <<"h","t","t","p","s",":","/","/">>)

\* the comparison made with the case taken into account
isOriginAllowedExact(origin) ==
    \E i \in 1..Len(allowedOrigins) : origin = allowedOrigins[i]

isOriginAllowed(origin) ==
    \E i \in 1..Len(allowedOrigins) : EqualFold(origin, allowedOrigins[i])

\* the headers corsMiddleware sets before it looks at the method
CorsHeaders(h, origin) ==
    LET h1 == IF Len(allowedOrigins) = 0
              THEN SetHeader(h, "Access-Control-Allow-Origin", <<"*">>)
              ELSE IF origin # <<>> /\ isValidOrigin(origin) /\ isOriginAllowed(origin)
                   THEN SetHeader(h, "Access-Control-Allow-Origin", origin)
                   ELSE h
        h2 == SetHeader(h1, "Access-Control-Allow-Methods", "GET, POST, OPTIONS")
    IN  SetHeader(h2, "Access-Control-Allow-Headers", "Content-Type, Authorization")

\* the link without its answer to OPTIONS
corsMiddlewareNoPreflight(r) ==
    /\ pc[r] = "cors"
    /\ resp' = [resp EXCEPT ![r].headers = CorsHeaders(@, req[r].origin)]
    /\ Enter(r, NextLink("cors"))
    /\ UNCHANGED <<config, ledger, seq, req, ctx, call, sent>>

corsMiddleware(r) ==
    /\ pc[r] = "cors"
    /\ LET w == [resp[r] EXCEPT !.headers = CorsHeaders(@, req[r].origin)]
       IN  IF req[r].method = "OPTIONS"
           THEN /\ resp' = [resp EXCEPT ![r] = Write(w, StatusOK, NoBody)]
                /\ Finish(r)
           ELSE /\ resp' = [resp EXCEPT ![r] = w]
                /\ Enter(r, NextLink("cors"))
    /\ UNCHANGED <<config, ledger, seq, req, ctx, call, sent>>

\* the patterns registered in NewRouter; "/" takes every other path
Route(path) ==
    CASE path = "/health" -> "health"
      [] path = "/api/v1/trigger/jenkins" -> "trigger"
      [] path = "/api/v1/audit" -> "audit"
      [] OTHER -> "root"

Protected(path) == Route(path) \in {"trigger", "audit"}

\* mux.ServeHTTP: the protected routes are wrapped in authMiddleware.Middleware
MuxServeHTTP(r) ==
    /\ pc[r] = "mux"
    /\ Enter(r, IF Protected(req[r].path) THEN "auth" ELSE Route(req[r].path))
    /\ UNCHANGED <<config, ledger, seq, req, ctx, resp, call, sent>>

GetAPIKey(request) ==
    IF request.authorization # <<>>
    THEN TrimPrefix(request.authorization, Bearer)
    ELSE <<>>

ValidateAPIKey(apiKey) == TrimSpace(TrimPrefix(apiKey, Bearer)) \in apiKeys

\* the middleware without the return after http.Error
AuthMiddlewareNoReturn(r) ==
    /\ pc[r] = "auth"
    /\ LET apiKey == GetAPIKey(req[r])
       IN  /\ resp' = [resp EXCEPT ![r] =
                         IF ~ValidateAPIKey(apiKey)
                         THEN HttpError(@, "Unauthorized", StatusUnauthorized)
                         ELSE @]
           /\ ctx' = [ctx EXCEPT ![r].has_api_key = TRUE, ![r].api_key = apiKey]
           /\ Enter(r, Route(req[r].path))
    /\ UNCHANGED <<config, ledger, seq, req, call, sent>>

AuthMiddleware(r) ==
    /\ pc[r] = "auth"
    /\ LET apiKey == GetAPIKey(req[r])
       IN  IF ~ValidateAPIKey(apiKey)
           THEN /\ resp' = [resp EXCEPT ![r] = HttpError(@, "Unauthorized", StatusUnauthorized)]
                /\ Finish(r)
                /\ UNCHANGED ctx
           ELSE /\ ctx' = [ctx EXCEPT ![r].has_api_key = TRUE, ![r].api_key = apiKey]
                /\ Enter(r, Route(req[r].path))
                /\ UNCHANGED resp
    /\ UNCHANGED <<config, ledger, seq, req, call, sent>>

RootHandler(r) ==
    /\ pc[r] = "root"
    /\ resp' = [resp EXCEPT ![r] =
                  Write([@ EXCEPT !.headers = SetHeader(@, "Content-Type", "application/json")],
                        StatusOK, [kind |-> "info"])]
    /\ Finish(r)
    /\ UNCHANGED <<config, ledger, seq, req, ctx, call, sent>>

\* storage.Ping() succeeds or fails
HealthHandler(r) ==
    /\ pc[r] = "health"
    /\ \E pingOK \in BOOLEAN :
          resp' = [resp EXCEPT ![r] =
                     Write([@ EXCEPT !.headers = SetHeader(@, "Content-Type", "application/json")],
                           IF pingOK THEN StatusOK ELSE StatusServiceUnavailable,
                           [kind |-> "health", healthy |-> pingOK])]
    /\ Finish(r)
    /\ UNCHANGED <<config, ledger, seq, req, ctx, call, sent>>


\* ------------------------------------------------- trigger handler: checks

\* jobNameRegex: ^[a-zA-Z0-9_/\- ]+$
JobNameChars == Lower \cup Upper \cup Digit \cup {"_", "/", "-", " "}

MatchJobNameRegex(s) ==
    /\ Len(s) >= 1
    /\ \A i \in 1..Len(s) : s[i] \in JobNameChars

\* parameterKeyRegex: ^[a-zA-Z0-9_-]+(\.[a-zA-Z0-9_-]+)*$
ParamKeyChars == Lower \cup Upper \cup Digit \cup {"_", "-"}

MatchParameterKeyRegex(s) ==
    LET segs == Split(s, ".")
    IN  \A i \in 1..Len(segs) :
            /\ Len(segs[i]) >= 1
            /\ \A j \in 1..Len(segs[i]) : segs[i][j] \in ParamKeyChars

\* json.NewDecoder(r.Body).Decode(&req) returns an error: the body is no JSON
\* document, or reading it runs past the limit of http.MaxBytesReader
DecodeFails(request) ==
    \/ request.body.kind # "json"
    \/ request.body_limit >= 0 /\ request.body.size > request.body_limit

\* the checks with the length of the key taken where the value's is meant
ParameterErrorKeyForValue(key, value) ==
    IF key = <<>> THEN "Parameter key cannot be empty"
    ELSE IF Len(key) > MaxParamKeyLen THEN "Parameter key exceeds maximum length of 255 characters"
    ELSE IF ~MatchParameterKeyRegex(key) THEN "Invalid parameter key format"
    ELSE IF HasPrefix(key, <<".">>) \/ HasSuffix(key, <<".">>) \/ Contains(key, <<".", ".">>)
         THEN "Invalid parameter key format: dots"
    ELSE IF Len(key) > MaxParamValueLen THEN "Parameter value exceeds maximum length of 10KB"
    ELSE ""

\* the message of the check one parameter fails, "" when it passes them all
ParameterError(key, value) ==
    IF key = <<>> THEN "Parameter key cannot be empty"
    ELSE IF Len(key) > MaxParamKeyLen THEN "Parameter key exceeds maximum length of 255 characters"
    ELSE IF ~MatchParameterKeyRegex(key) THEN "Invalid parameter key format"
    ELSE IF HasPrefix(key, <<".">>) \/ HasSuffix(key, <<".">>) \/ Contains(key, <<".", ".">>)
         THEN "Invalid parameter key format: dots"
    ELSE IF Len(value) > MaxParamValueLen THEN "Parameter value exceeds maximum length of 10KB"
    ELSE ""

\* the messages the handler may answer 400 with; the empty set when the request
\* passes.  The range over the map visits the keys in no fixed order, so any
\* failing parameter may be the one reported.
ValidationErrors(request) ==
    LET job == request.body.job
        ps == request.body.parameters
    IN  IF DecodeFails(request) THEN {"Invalid request body"}
        ELSE IF job = <<>> THEN {"Job name is required"}
        ELSE IF Len(job) > MaxJobNameLen
             THEN {"Job name exceeds maximum length of 255 characters"}
        ELSE IF ~MatchJobNameRegex(job) THEN {"Invalid job name format"}
        ELSE IF ps.nil THEN {}
        ELSE IF Cardinality(DOMAIN ps.m) > MaxParams THEN {"Maximum 100 parameters allowed"}
        ELSE {ParameterError(k, ps.m[k]) : k \in DOMAIN ps.m} \ {""}

\* writeErrorWithRequestID
writeErrorWithRequestID(w, c, status, message) ==
    Write([w EXCEPT !.headers = SetHeader(@, "Content-Type", "application/json")],
          status,
          [kind |-> "error", error |-> message,
           request_id |-> IF c.has_request_id THEN c.request_id ELSE <<>>])

\* the handler with an entry written for a request it turns down
TriggerJenkinsBuildRecordsRejection(r) ==
    /\ pc[r] = "trigger"
    /\ LET errors == ValidationErrors(req[r])
       IN  IF errors # {}
           THEN /\ \E message \in errors :
                      resp' = [resp EXCEPT ![r] =
                                 writeErrorWithRequestID(@, ctx[r], StatusBadRequest, message)]
                /\ ledger' = Append(ledger, [id |-> seq + 1, job_name |-> req[r].body.job,
                                             status |-> StatusBadRequest, result |-> "failed"])
                /\ seq' = seq + 1
                /\ pc' = [pc EXCEPT ![r] = "done"]
           ELSE /\ pc' = [pc EXCEPT ![r] = "engine"]
                /\ UNCHANGED <<resp, ledger, seq>>
    /\ UNCHANGED <<config, req, ctx, stages, call, sent>>

\* the first part of TriggerJenkinsBuild, up to the call of the engine
TriggerJenkinsBuild(r) ==
    /\ pc[r] = "trigger"
    /\ LET errors == ValidationErrors(req[r])
       IN  IF errors # {}
           THEN /\ \E message \in errors :
                      resp' = [resp EXCEPT ![r] =
                                 writeErrorWithRequestID(@, ctx[r], StatusBadRequest, message)]
                /\ pc' = [pc EXCEPT ![r] = "done"]
           ELSE /\ pc' = [pc EXCEPT ![r] = "engine"]
                /\ UNCHANGED resp
    /\ UNCHANGED <<config, ledger, seq, req, ctx, stages, call, sent>>

\* ------------------------------------------------ Jenkins trigger and client

\* Client.url: cfg.URL without a trailing slash
JenkinsURL == <<"h","t","t","p",":","/","/","j">>

\* url.PathEscape: the characters a validated job name may hold that are escaped
PathEscapeChar(c) ==
    CASE c = " " -> <<"%","2","0">>
      [] c = "/" -> <<"%","2","F">>
      [] c = "%" -> <<"%","2","5">>
      [] c = "?" -> <<"%","3","F">>
      [] c = "#" -> <<"%","2","3">>
      [] OTHER -> <<c>>

RECURSIVE PathEscape(_)
PathEscape(s) ==
    IF s = <<>> THEN <<>>
    ELSE IF Len(s) = 1 THEN PathEscapeChar(s[1])
    ELSE LET half == Len(s) \div 2
         IN  PathEscape(SubSeq(s, 1, half)) \o PathEscape(SubSeq(s, half + 1, Len(s)))

JobPrefix == <<"/","j","o","b","/">>

\* the path of the build without parameters, whatever the parameters
BuildPathAlwaysBuild(jobName, params) ==
    JobPrefix \o PathEscape(jobName) \o <<"/","b","u","i","l","d">>

BuildPath(jobName, params) ==
    JobPrefix \o PathEscape(jobName) \o
    (IF params.nil \/ DOMAIN params.m = {}
     THEN <<"/","b","u","i","l","d">>
     ELSE <<"/","b","u","i","l","d","W","i","t","h","P","a","r","a","m","e","t","e","r","s">>)

\* the checks of Trigger.TriggerBuild before it builds the path
TriggerNameError(jobName) ==
    IF jobName = <<>> THEN Errorf("job name cannot be empty", <<>>)
    ELSE IF Contains(jobName, <<".", ".">>) \/ Contains(jobName, <<"/">>)
         THEN Errorf("invalid job name format", jobName)
    ELSE NilErr

\* the checks of Trigger.GetBuildStatus on a build id, before it asks Jenkins
GetBuildStatusError(buildID) ==
    IF buildID = <<>> THEN Errorf("build ID cannot be empty", <<>>)
    ELSE IF Len(Split(buildID, "/")) # 2 THEN Errorf("invalid build ID format", buildID)
    ELSE IF Split(buildID, "/")[2] = <<>> THEN Errorf("build number cannot be empty", <<>>)
    ELSE NilErr

\* what Trigger.TriggerBuild returns once the client call has returned
TriggerResult(jobName, buildID, buildURL, err) ==
    IF ~err.isNil
    THEN BuildResult(FALSE, <<>>, <<>>, "Failed to trigger Jenkins build", ErrorText(err))
    ELSE BuildResult(TRUE, buildID, buildURL, "Successfully triggered Jenkins build for job",
                     [msg |-> "", arg |-> jobName])

Resolve(r, result, err) ==
    call' = [call EXCEPT ![r].result = result, ![r].err = err, ![r].resolved = TRUE]

\* Trigger.TriggerBuild up to the first request of the client
TriggerBuild(r) ==
    /\ pc[r] = "engine"
    /\ LET jobName == req[r].body.job
           err == TriggerNameError(jobName)
       IN  IF ~err.isNil
           THEN /\ Resolve(r, BuildResult(FALSE, <<>>, <<>>,
                                          IF jobName = <<>> THEN "Job name cannot be empty"
                                                            ELSE "Invalid job name format",
                                          NoErrorText), err)
                /\ pc' = [pc EXCEPT ![r] = "insert"]
           ELSE /\ pc' = [pc EXCEPT ![r] = "crumb"]
                /\ UNCHANGED call
    /\ UNCHANGED <<config, ledger, seq, req, ctx, resp, stages, sent>>

\* what Jenkins may answer to GET /crumbIssuer/api/json
CrumbResponse(kind, status, crumb, field) ==
    [kind |-> kind, status |-> status, crumb |-> crumb, crumbRequestField |-> field]

DefaultCrumbField == <<"J","e","n","k","i","n","s","-","C","r","u","m","b">>

\* Client.getCrumb: the field name and the value, both empty on an error
getCrumb(answer) ==
    IF answer.kind = "neterr" \/ answer.status # StatusOK \/ answer.kind = "badjson"
    THEN [field |-> <<>>, value |-> <<>>, ok |-> FALSE]
    ELSE [field |-> IF answer.crumbRequestField = <<>> THEN DefaultCrumbField
                    ELSE answer.crumbRequestField,
          value |-> answer.crumb, ok |-> TRUE]

GetCrumb(r, Answers) ==
    /\ pc[r] = "crumb"
    /\ sent' = [sent EXCEPT ![r] = Append(@, [method |-> "GET", path |-> "/crumbIssuer/api/json"])]
    /\ \E answer \in Answers :
          LET c == getCrumb(answer)
          IN  call' = [call EXCEPT ![r].crumbField = c.field, ![r].crumbValue = c.value,
                                   ![r].crumbAnswer = answer]
    /\ pc' = [pc EXCEPT ![r] = "post"]
    /\ UNCHANGED <<config, ledger, seq, req, ctx, resp, stages>>

\* what Jenkins may answer to the build POST
BuildResponse(kind, status, location, body) ==
    [kind |-> kind, status |-> status, location |-> location, body |-> body]

\* the error made from the body Jenkins sent
formatJenkinsErrorWithBody(statusCode, responseBody) ==
    Errorf("jenkins api request failed", responseBody)

formatJenkinsError(statusCode, responseBody) ==
    CASE statusCode = 401 -> Errorf("authentication failed: invalid credentials", <<>>)
      [] statusCode = 403 -> Errorf("access denied: insufficient permissions", <<>>)
      [] statusCode = 404 -> Errorf("resource not found", <<>>)
      [] statusCode = 400 -> Errorf("invalid request", <<>>)
      [] statusCode \in {500, 502, 503} ->
            Errorf("jenkins server error: please try again later", <<>>)
      [] OTHER -> Errorf("jenkins api request failed", <<>>)

HexDigit == Digit \cup {"a","b","c","d","e","f","A","B","C","D","E","F"}

\* the first place of character c in s, 0 when it is not there
IndexOf(s, c) ==
    IF \E i \in 1..Len(s) : s[i] = c
    THEN CHOOSE i \in 1..Len(s) : s[i] = c /\ \A k \in 1..(i - 1) : s[k] # c
    ELSE 0

\* strings.Cut: the part of s before the first c
Before(s, c) == IF IndexOf(s, c) = 0 THEN s ELSE SubSeq(s, 1, IndexOf(s, c) - 1)

\* a "%" that is not followed by two hex digits
BadEscape(s) ==
    \E i \in 1..Len(s) :
        s[i] = "%" /\ ~(i + 2 <= Len(s) /\ s[i + 1] \in HexDigit /\ s[i + 2] \in HexDigit)

\* the character of a percent escape (those the Locations of the model hold)
UnescapePair(a, b) ==
    CASE <<a, b>> = <<"2", "0">> -> " "
      [] <<a, b>> \in {<<"2", "F">>, <<"2", "f">>} -> "/"
      [] <<a, b>> = <<"2", "5">> -> "%"
      [] OTHER -> "?"

RECURSIVE Unescape(_)
Unescape(s) ==
    IF s = <<>> THEN <<>>
    ELSE IF s[1] = "%" THEN <<UnescapePair(s[2], s[3])>> \o Unescape(SubSeq(s, 4, Len(s)))
    ELSE <<s[1]>> \o Unescape(Tail(s))

\* url.Parse of an absolute http(s) URL and its Path: the fragment and the
\* query are cut off, the path starts at the first "/" after the authority and
\* is unescaped; a bad escape is an error
URLPath(location) ==
    LET rest == IF HasPrefix(location, <<"h","t","t","p","s",":","/","/">>)
                THEN SubSeq(location, 9, Len(location))
                ELSE SubSeq(location, 8, Len(location))
        plain == Before(Before(rest, "#"), "?")
        raw == IF IndexOf(plain, "/") = 0 THEN <<>>
               ELSE SubSeq(plain, IndexOf(plain, "/"), Len(plain))
    IN  IF BadEscape(plain) THEN [ok |-> FALSE, path |-> <<>>]
        ELSE [ok |-> TRUE, path |-> Unescape(raw)]

RECURSIVE TrimLeftSlash(_)
TrimLeftSlash(s) == IF s # <<>> /\ Head(s) = "/" THEN TrimLeftSlash(Tail(s)) ELSE s

RECURSIVE TrimRightSlash(_)
TrimRightSlash(s) ==
    IF s # <<>> /\ s[Len(s)] = "/" THEN TrimRightSlash(SubSeq(s, 1, Len(s) - 1)) ELSE s

Slash == <<"/">>

extractBuildInfo(location, buildPath) ==
    IF location = <<>>
    THEN LET parts == Split(TrimPrefix(buildPath, JobPrefix), "/")
         IN  [buildID |-> <<>>, buildURL |-> JenkinsURL \o JobPrefix \o parts[1] \o Slash]
    ELSE LET absolute == \/ HasPrefix(location, <<"h","t","t","p",":","/","/">>)
                         \/ HasPrefix(location, <<"h","t","t","p","s",":","/","/">>)
             pathPart == IF absolute THEN URLPath(location).path ELSE location
             parts == Split(TrimRightSlash(TrimLeftSlash(pathPart)), "/")
         IN  IF absolute /\ ~URLPath(location).ok
             THEN [buildID |-> <<>>, buildURL |-> <<>>]
             ELSE IF Len(parts) >= 3 /\ parts[1] = <<"j","o","b">>
             THEN [buildID |-> parts[2] \o Slash \o parts[3],
                   buildURL |-> JenkinsURL \o JobPrefix \o parts[2] \o Slash \o parts[3] \o Slash]
             ELSE [buildID |-> <<>>, buildURL |-> <<>>]

\* the form and the crumb header of the build POST: doBuildRequest puts the
\* crumb in both, doParameterizedRequest in the header alone
BuildRequest(buildPath, params, crumbField, crumbValue) ==
    LET has == crumbField # <<>> /\ crumbValue # <<>>
        parameterized == ~params.nil /\ DOMAIN params.m # {}
        base == IF parameterized THEN params.m ELSE (<<"j","s","o","n">> :> <<"{","}">>)
    IN  [method |-> "POST", path |-> buildPath,
         contentType |-> "application/x-www-form-urlencoded",
         form |-> IF has /\ ~parameterized
                  THEN [k \in DOMAIN base \cup {crumbField} |->
                           IF k = crumbField THEN crumbValue ELSE base[k]]
                  ELSE base,
         crumbHeader |-> IF has THEN <<crumbField, crumbValue>> ELSE <<>>]

\* the outcome of doBuildRequest / doParameterizedRequest for Jenkins' answer
BuildOutcome(answer, buildPath) ==
    IF answer.kind = "neterr"
    THEN [buildID |-> <<>>, buildURL |-> <<>>, err |-> Errorf("net/http: request failed", <<>>)]
    ELSE IF answer.kind = "readerr"
    THEN [buildID |-> <<>>, buildURL |-> <<>>,
          err |-> Errorf("failed to read response body", <<>>)]
    ELSE IF answer.status < 200 \/ answer.status >= 300
    THEN [buildID |-> <<>>, buildURL |-> <<>>,
          err |-> formatJenkinsError(answer.status, answer.body)]
    ELSE LET info == extractBuildInfo(answer.location, buildPath)
         IN  [buildID |-> info.buildID, buildURL |-> info.buildURL, err |-> NilErr]

\* the build given up when there is no crumb
PostBuildNeedsCrumb(r, Answers) ==
    /\ pc[r] = "post"
    /\ LET jobName == req[r].body.job
           buildPath == BuildPath(jobName, req[r].body.parameters)
       IN  IF call[r].crumbField = <<>>
           THEN /\ UNCHANGED sent
                /\ Resolve(r, TriggerResult(jobName, <<>>, <<>>, Errorf("failed to get crumb", <<>>)),
                           Errorf("failed to get crumb", <<>>))
           ELSE /\ sent' = [sent EXCEPT ![r] =
                              Append(@, BuildRequest(buildPath, req[r].body.parameters,
                                                     call[r].crumbField, call[r].crumbValue))]
                /\ \E answer \in Answers :
                      LET out == BuildOutcome(answer, buildPath)
                      IN  call' = [call EXCEPT
                              ![r].result = TriggerResult(jobName, out.buildID, out.buildURL, out.err),
                              ![r].err = out.err, ![r].resolved = TRUE, ![r].answer = answer]
    /\ pc' = [pc EXCEPT ![r] = "insert"]
    /\ UNCHANGED <<config, ledger, seq, req, ctx, resp, stages>>

\* the build POST sent a second time when the first one failed
PostBuildRetry(r, Answers) ==
    /\ pc[r] = "post"
    /\ LET jobName == req[r].body.job
           buildPath == BuildPath(jobName, req[r].body.parameters)
           post == BuildRequest(buildPath, req[r].body.parameters,
                                call[r].crumbField, call[r].crumbValue)
       IN  \E answer \in Answers :
              LET out == BuildOutcome(answer, buildPath)
              IN  /\ sent' = [sent EXCEPT ![r] =
                                IF out.err.isNil THEN Append(@, post)
                                ELSE Append(Append(@, post), post)]
                  /\ call' = [call EXCEPT
                         ![r].result = TriggerResult(jobName, out.buildID, out.buildURL, out.err),
                         ![r].err = out.err, ![r].resolved = TRUE, ![r].answer = answer]
    /\ pc' = [pc EXCEPT ![r] = "insert"]
    /\ UNCHANGED <<config, ledger, seq, req, ctx, resp, stages>>

\* the build POST and the return of Trigger.TriggerBuild
PostBuild(r, Answers) ==
    /\ pc[r] = "post"
    /\ LET jobName == req[r].body.job
           buildPath == BuildPath(jobName, req[r].body.parameters)
       IN  /\ sent' = [sent EXCEPT ![r] =
                         Append(@, BuildRequest(buildPath, req[r].body.parameters,
                                                call[r].crumbField, call[r].crumbValue))]
           /\ \E answer \in Answers :
                 LET out == BuildOutcome(answer, buildPath)
                 IN  call' = [call EXCEPT
                         ![r].result = TriggerResult(jobName, out.buildID, out.buildURL, out.err),
                         ![r].err = out.err, ![r].resolved = TRUE, ![r].answer = answer]
    /\ pc' = [pc EXCEPT ![r] = "insert"]
    /\ UNCHANGED <<config, ledger, seq, req, ctx, resp, stages>>


\* ------------------------------------------------------------ audit ledger

Unknown == <<"u","n","k","n","o","w","n">>

\* marshalParams: the JSON text of the map, kept as the value it denotes
marshalParams(params) ==
    IF params.nil THEN [json |-> "null", members |-> <<>>]
    ELSE [json |-> "object", members |-> params.m]

\* models.AuditLog as the handler fills it in (the timestamp, time.Now(), is
\* left out: nothing in the model reads it)
AuditLog(apiKey, method, path, status, jobName, params, result, errorText) ==
    [id |-> 0, api_key |-> apiKey, method |-> method, path |-> path, status |-> status,
     job_name |-> jobName, params |-> params, result |-> result, error |-> errorText]

\* the entry with status 200 recorded whatever the outcome
AuditEntryAlwaysOK(request, c, result, err) ==
    LET apiKey == IF c.has_api_key THEN c.api_key ELSE Unknown
    IN  AuditLog(apiKey, request.method, request.path, StatusOK,
                 request.body.job, marshalParams(request.body.parameters),
                 IF ~err.isNil THEN "failed" ELSE "success",
                 IF ~err.isNil THEN ErrorText(err) ELSE NoErrorText)

\* the entry built from the request and the context of the first slot, as if
\* the handlers shared them
AuditEntryFromShared(request, c, result, err) ==
    LET apiKey == IF ctx[1].has_api_key THEN ctx[1].api_key ELSE Unknown
    IN  AuditLog(apiKey, req[1].method, req[1].path,
                 IF ~err.isNil THEN StatusInternalServerError ELSE StatusOK,
                 req[1].body.job, marshalParams(req[1].body.parameters),
                 IF ~err.isNil THEN "failed" ELSE "success",
                 IF ~err.isNil THEN ErrorText(err) ELSE NoErrorText)

\* the entry TriggerJenkinsBuild writes for the outcome of the engine call
AuditEntryFor(request, c, result, err) ==
    LET apiKey == IF c.has_api_key THEN c.api_key ELSE Unknown
    IN  IF ~err.isNil
        THEN AuditLog(apiKey, request.method, request.path, StatusInternalServerError,
                      request.body.job, marshalParams(request.body.parameters),
                      "failed", ErrorText(err))
        ELSE AuditLog(apiKey, request.method, request.path, StatusOK,
                      request.body.job, marshalParams(request.body.parameters),
                      "success", NoErrorText)

\* the insert with the counter's present value taken as the new id
InsertRowReuseID(rows, counter, log) == Append(rows, [log EXCEPT !.id = counter])

\* INSERT INTO audit_logs: id INTEGER PRIMARY KEY AUTOINCREMENT
InsertRow(rows, counter, log) == Append(rows, [log EXCEPT !.id = counter + 1])

\* the append made twice when it succeeds
InsertAuditLogTwice(r) ==
    /\ pc[r] = "insert"
    /\ \E ok \in BOOLEAN :
          /\ IF ok
             THEN LET log == AuditEntryFor(req[r], ctx[r], call[r].result, call[r].err)
                  IN  /\ ledger' = InsertRow(InsertRow(ledger, seq, log), seq + 1, log)
                      /\ seq' = seq + 2
             ELSE UNCHANGED <<ledger, seq>>
          /\ call' = [call EXCEPT ![r].appends = @ + 1, ![r].inserted = ok,
                                  ![r].rowids = IF ok THEN @ \cup {seq + 1, seq + 2} ELSE @]
    /\ pc' = [pc EXCEPT ![r] = "respond"]
    /\ UNCHANGED <<config, req, ctx, resp, stages, sent>>

\* storage.InsertAuditLog as the handler calls it: db.Exec succeeds and the row
\* is there, or it fails and the handler logs the error and goes on.  call[r]
\* counts the calls and keeps the ids of the rows they made.
InsertAuditLog(r) ==
    /\ pc[r] = "insert"
    /\ \E ok \in BOOLEAN :
          /\ IF ok
             THEN /\ ledger' = InsertRow(ledger, seq,
                                         AuditEntryFor(req[r], ctx[r], call[r].result, call[r].err))
                  /\ seq' = seq + 1
             ELSE UNCHANGED <<ledger, seq>>
          /\ call' = [call EXCEPT ![r].appends = @ + 1, ![r].inserted = ok,
                                  ![r].rowids = IF ok THEN @ \cup {seq + 1} ELSE @]
    /\ pc' = [pc EXCEPT ![r] = "respond"]
    /\ UNCHANGED <<config, req, ctx, resp, stages, sent>>

\* the status made to depend on the append
ResponseStatusByAppend(err, inserted) ==
    IF ~err.isNil \/ ~inserted THEN StatusInternalServerError ELSE StatusOK

\* the status the handler writes once the entry is written
ResponseStatus(err, inserted) ==
    IF ~err.isNil THEN StatusInternalServerError ELSE StatusOK

\* the end of TriggerJenkinsBuild: w.WriteHeader and the encoded result
WriteResult(r) ==
    /\ pc[r] = "respond"
    /\ resp' = [resp EXCEPT ![r] =
                  Write(@, ResponseStatus(call[r].err, call[r].inserted),
                        [kind |-> "result", result |-> call[r].result])]
    /\ pc' = [pc EXCEPT ![r] = "done"]
    /\ UNCHANGED <<config, ledger, seq, req, ctx, stages, call, sent>>

RECURSIVE DigitsValue(_)
DigitsValue(s) ==
    IF s = <<>> THEN 0
    ELSE 10 * DigitsValue(SubSeq(s, 1, Len(s) - 1))
         + (CHOOSE d \in 0..9 : <<"0","1","2","3","4","5","6","7","8","9">>[d + 1] = s[Len(s)])

Min(a, b) == IF a <= b THEN a ELSE b

\* the digits of the largest int: 1<<63 - 1
MaxIntDigits ==
    <<"9","2","2","3","3","7","2","0","3","6","8","5","4","7","7","5","8","0","7">>

RECURSIVE TrimLeftZeros(_)
TrimLeftZeros(s) ==
    IF Len(s) > 1 /\ Head(s) = "0" THEN TrimLeftZeros(Tail(s)) ELSE s

\* digits without leading zeros, as a number, is more than MaxIntDigits + more
GreaterThanMaxInt(sig, more) ==
    \/ Len(sig) > Len(MaxIntDigits)
    \/ /\ Len(sig) = Len(MaxIntDigits)
       /\ \E i \in 1..Len(sig) :
             /\ SubSeq(sig, 1, i - 1) = SubSeq(MaxIntDigits, 1, i - 1)
             /\ DigitsValue(<<sig[i]>>) > DigitsValue(<<MaxIntDigits[i]>>) +
                                          (IF i = Len(sig) THEN more ELSE 0)

\* strconv.Atoi: an optional sign and decimal digits; a value that does not
\* fit an int is an error (ErrRange)
Atoi(s) ==
    LET signed == s # <<>> /\ Head(s) \in {"+", "-"}
        neg == signed /\ Head(s) = "-"
        digits == IF signed THEN Tail(s) ELSE s
    IN  IF digits = <<>> \/ \E i \in 1..Len(digits) : digits[i] \notin Digit
        THEN [ok |-> FALSE, value |-> 0]
        ELSE IF GreaterThanMaxInt(TrimLeftZeros(digits), IF neg THEN 1 ELSE 0)
        THEN [ok |-> FALSE, value |-> 0]
        ELSE [ok |-> TRUE,
              value |-> IF neg THEN 0 - DigitsValue(digits) ELSE DigitsValue(digits)]

\* the limit with the default as a ceiling
EffectiveLimitCapped(limitStr) ==
    IF limitStr # <<>> /\ Atoi(limitStr).ok /\ Atoi(limitStr).value > 0
    THEN Min(Atoi(limitStr).value, DefaultLimit)
    ELSE DefaultLimit

EffectiveLimit(limitStr) ==
    IF limitStr # <<>> /\ Atoi(limitStr).ok /\ Atoi(limitStr).value > 0
    THEN Atoi(limitStr).value
    ELSE DefaultLimit

EffectiveOffset(offsetStr) ==
    IF offsetStr # <<>> /\ Atoi(offsetStr).ok /\ Atoi(offsetStr).value >= 0
    THEN Atoi(offsetStr).value
    ELSE DefaultOffset

\* the rows in the order of ORDER BY id DESC
RECURSIVE OrderByIdDesc(_)
OrderByIdDesc(rows) ==
    IF rows = {} THEN <<>>
    ELSE LET top == CHOOSE x \in rows : \A y \in rows : y.id <= x.id
         IN  <<top>> \o OrderByIdDesc(rows \ {top})

\* the query with the offset counted from the second row
SelectAuditLogsSkipOneMore(rows, limit, offset) ==
    LET all == OrderByIdDesc({rows[i] : i \in 1..Len(rows)})
        from == IF offset < 0 THEN 1 ELSE offset + 2
        to == IF limit < 0 THEN Len(all) ELSE Min(Len(all), from + limit - 1)
    IN  SubSeq(all, from, to)

\* SELECT ... FROM audit_logs ORDER BY id DESC LIMIT ? OFFSET ?
\* (SQLite: a negative LIMIT is no limit, a negative OFFSET is 0)
SelectAuditLogs(rows, limit, offset) ==
    LET all == OrderByIdDesc({rows[i] : i \in 1..Len(rows)})
        from == IF offset < 0 THEN 1 ELSE offset + 1
        to == IF limit < 0 THEN Len(all) ELSE Min(Len(all), from + limit - 1)
    IN  SubSeq(all, from, to)

\* AuditHandler.GetAuditLogs: the query succeeds, or fails and the answer is 500.
\* call[r] keeps the limit and offset of the query and the rows the table held
\* when it ran.
\* the listing with an entry written for the listing itself
GetAuditLogsRecorded(r) ==
    /\ pc[r] = "audit"
    /\ LET limit == EffectiveLimit(req[r].limit_query)
           offset == EffectiveOffset(req[r].offset_query)
       IN  /\ call' = [call EXCEPT ![r].limit = limit, ![r].offset = offset,
                                   ![r].snapshot = ledger]
           /\ resp' = [resp EXCEPT ![r] =
                         Write([@ EXCEPT !.headers =
                                   SetHeader(@, "Content-Type", "application/json")],
                               StatusOK,
                               [kind |-> "logs",
                                logs |-> SelectAuditLogs(ledger, limit, offset)])]
           /\ ledger' = InsertRow(ledger, seq,
                                  AuditLog(ctx[r].api_key, req[r].method, req[r].path, StatusOK,
                                           <<>>, marshalParams(NilParams), "success", NoErrorText))
           /\ seq' = seq + 1
    /\ pc' = [pc EXCEPT ![r] = "done"]
    /\ UNCHANGED <<config, req, ctx, stages, sent>>

GetAuditLogs(r) ==
    /\ pc[r] = "audit"
    /\ LET limit == EffectiveLimit(req[r].limit_query)
           offset == EffectiveOffset(req[r].offset_query)
       IN  /\ call' = [call EXCEPT ![r].limit = limit, ![r].offset = offset,
                                   ![r].snapshot = ledger]
           /\ \E ok \in BOOLEAN :
                 resp' = [resp EXCEPT ![r] =
                    IF ok
                    THEN Write([@ EXCEPT !.headers =
                                   SetHeader(@, "Content-Type", "application/json")],
                               StatusOK,
                               [kind |-> "logs",
                                logs |-> SelectAuditLogs(ledger, limit, offset)])
                    ELSE writeErrorWithRequestID(@, ctx[r], StatusInternalServerError,
                                                 "Failed to get audit logs")]
    /\ pc' = [pc EXCEPT ![r] = "done"]
    /\ UNCHANGED <<config, ledger, seq, req, ctx, stages, sent>>

\* ------------------------------------------------------- the gateway: Spec

K1 == <<"k","1">>
K2 == <<"k","2">>

TriggerPath == "/api/v1/trigger/jenkins"
AuditPath == "/api/v1/audit"

\* a request with an X-Request-ID of its own and no Origin
Request(method, path, authorization, body) ==
    FullRequest(method, path, authorization, <<>>, <<>>, <<"r">>, <<>>, <<>>, body)

ListRequest(authorization, limit, offset) ==
    FullRequest("GET", AuditPath, authorization, <<>>, <<>>, <<"r">>, limit, offset, EmptyBody)

JobA == <<"a">>
JobB == <<"b">>
OneParam == ParamsOf(<<"p">> :> <<"v">>)

GatewayRequests ==
    { FullRequest("GET", "/", <<>>, <<>>, <<>>, <<>>, <<>>, <<>>, EmptyBody),
      Request("GET", "/health", <<>>, EmptyBody),
      Request("OPTIONS", TriggerPath, <<>>, EmptyBody),
      Request("POST", TriggerPath, <<>>, JSONBody(JobA, NilParams)),
      ListRequest(Bearer \o <<"k","9">>, <<>>, <<>>),
      Request("POST", TriggerPath, Bearer \o K1, JSONBody(JobA, NilParams)),
      Request("POST", TriggerPath, K1, JSONBody(JobB, OneParam)),
      Request("POST", TriggerPath, Bearer \o K1, JSONBody(<<>>, NilParams)),
      Request("POST", TriggerPath, Bearer \o K1, JSONBody(<<"a","/","b">>, NilParams)),
      ListRequest(Bearer \o K1, <<>>, <<>>) }

GatewayCrumbAnswers ==
    { CrumbResponse("http", 200, <<"c">>, <<>>),
      CrumbResponse("http", 404, <<>>, <<>>) }

GatewayBuildAnswers ==
    { BuildResponse("http", 201, <<"/","j","o","b","/","a","/","7","/">>, <<>>),
      BuildResponse("http", 500, <<>>, <<>>) }

\* a row written by an earlier run of the process
PreloadRow(i) ==
    [AuditLog(K1, "POST", TriggerPath, StatusOK, <<"o","l","d">>,
              marshalParams(NilParams), "success", NoErrorText) EXCEPT !.id = i]

InitRequests ==
    /\ pc = [r \in Slots |-> "idle"]
    /\ req = [r \in Slots |-> NoRequest]
    /\ ctx = [r \in Slots |-> NoContext]
    /\ resp = [r \in Slots |-> NoResponse]
    /\ stages = [r \in Slots |-> <<>>]
    /\ call = [r \in Slots |-> NoCall]
    /\ sent = [r \in Slots |-> <<>>]

InitLedger ==
    \E n \in 0..MaxPreload :
        /\ ledger = [i \in 1..n |-> PreloadRow(i)]
        /\ seq = n

Init ==
    /\ apiKeys = {K1}
    /\ allowedOrigins = <<>>
    /\ maxBodySize = DefaultMaxBodySize
    /\ InitLedger
    /\ InitRequests

Next ==
    \E r \in Slots :
        \/ ReceiveNext(r, GatewayRequests)
        \/ RequestIDMiddleware(r)
        \/ LimitBodySize(r)
        \/ corsMiddleware(r)
        \/ MuxServeHTTP(r)
        \/ AuthMiddleware(r)
        \/ RootHandler(r)
        \/ HealthHandler(r)
        \/ TriggerJenkinsBuild(r)
        \/ TriggerBuild(r)
        \/ GetCrumb(r, GatewayCrumbAnswers)
        \/ PostBuild(r, GatewayBuildAnswers)
        \/ InsertAuditLog(r)
        \/ WriteResult(r)
        \/ GetAuditLogs(r)

Spec == Init /\ [][Next]_vars


\* ------------------------------------- one request, drawn at the start

\* every action of a request after its arrival
Serve(r, CrumbAnswers, BuildAnswers) ==
    \/ RequestIDMiddleware(r)
    \/ LimitBodySize(r)
    \/ corsMiddleware(r)
    \/ MuxServeHTTP(r)
    \/ AuthMiddleware(r)
    \/ RootHandler(r)
    \/ HealthHandler(r)
    \/ TriggerJenkinsBuild(r)
    \/ TriggerBuild(r)
    \/ GetCrumb(r, CrumbAnswers)
    \/ PostBuild(r, BuildAnswers)
    \/ InsertAuditLog(r)
    \/ WriteResult(r)
    \/ GetAuditLogs(r)

\* requests of every route, so that each handler is reached
BaselineRequests ==
    { Request("GET", "/", <<>>, EmptyBody),
      Request("GET", "/health", <<>>, EmptyBody),
      Request("OPTIONS", AuditPath, <<>>, EmptyBody),
      Request("POST", TriggerPath, Bearer \o K1, JSONBody(JobA, NilParams)),
      ListRequest(Bearer \o K1, <<>>, <<>>) }

\* slot 1 holds a request of Requests that has just arrived; the table is empty
InitArrived(Requests) ==
    /\ ledger = <<>>
    /\ seq = 0
    /\ pc = [r \in Slots |-> IF r = 1 THEN Chain[1] ELSE "idle"]
    /\ \E in \in Requests : req = [r \in Slots |-> IF r = 1 THEN in ELSE NoRequest]
    /\ ctx = [r \in Slots |-> NoContext]
    /\ resp = [r \in Slots |-> NoResponse]
    /\ stages = [r \in Slots |-> IF r = 1 THEN <<Chain[1]>> ELSE <<>>]
    /\ call = [r \in Slots |-> NoCall]
    /\ sent = [r \in Slots |-> <<>>]

\* the same under the default configuration of origins and body size
InitOneRequest(Requests) ==
    /\ allowedOrigins = <<>>
    /\ maxBodySize = DefaultMaxBodySize
    /\ InitArrived(Requests)

\* ------------------------------------------------ authentication: SpecAuth

K9 == <<"k","9">>

AuthorizationValues ==
    { <<>>, K1, Bearer \o K1, Bearer \o Bearer \o K1,
      <<" ">> \o K1 \o <<" ">>, Bearer \o <<" ">> \o K1 \o <<"\t">>, Bearer \o <<" ">> \o K1,
      <<" ">> \o Bearer \o K1, <<"b","e","a","r","e","r"," ">> \o K1,
      <<"B","e","a","r","e","r">>, Bearer, <<"B","e","a","r","e","r">> \o K1,
      K9, Bearer \o K9, K1 \o <<"x">>, K2, Bearer \o K2 }

AuthRequests ==
    BaselineRequests \cup
    { FullRequest(method, path, authorization, query, <<>>, <<"r">>, <<>>, <<>>,
                  JSONBody(JobA, NilParams)) :
        method \in {"POST"}, path \in {TriggerPath, AuditPath},
        authorization \in AuthorizationValues, query \in {<<>>, K1} }

InitAuth ==
    /\ apiKeys \in {{K1}, {K1, K2}}
    /\ InitOneRequest(AuthRequests)

NextAuth == \E r \in Slots : Serve(r, GatewayCrumbAnswers, GatewayBuildAnswers)

SpecAuth == InitAuth /\ [][NextAuth]_vars


\* ------------------------------------------- trigger payloads: SpecValidate

V == <<"v">>

JobNames ==
    { <<>>, JobA, <<"A","-","b","_","1"," ","c">>, <<"a","/","b">>, <<"a","!","b">>,
      <<"a",".","b">>, <<"a","\n">>, Rep("a", MaxJobNameLen), Rep("a", MaxJobNameLen + 1) }

\* n parameters with distinct keys
ManyParams(n) == ParamsOf([k \in {Rep("k", i) : i \in 1..n} |-> V])

ParameterMaps ==
    { NilParams, ParamsOf(<<>>), OneParam,
      ParamsOf(<<"a",".","b","-","c","_","1">> :> V),
      ParamsOf(<<>> :> V),
      ParamsOf(<<".","a">> :> V),
      ParamsOf(<<"a",".">> :> V),
      ParamsOf(<<"a",".",".","b">> :> V),
      ParamsOf(<<"a"," ","b">> :> V),
      ParamsOf(<<"a","/","b">> :> V),
      ParamsOf(Rep("k", MaxParamKeyLen) :> V),
      ParamsOf(Rep("k", MaxParamKeyLen + 1) :> V),
      ParamsOf(<<"p">> :> Rep("v", MaxParamValueLen)),
      ParamsOf(<<"p">> :> Rep("v", MaxParamValueLen + 1)),
      ParamsOf((<<"p">> :> V) @@ (<<".","a">> :> V) @@ (<<"q">> :> Rep("v", MaxParamValueLen + 1))),
      ManyParams(MaxParams), ManyParams(MaxParams + 1) }

ValidateRequests ==
    BaselineRequests \cup
    { Request("POST", TriggerPath, Bearer \o K1, MalformedBody),
      Request("POST", TriggerPath, Bearer \o K1, EmptyBody) } \cup
    { Request("POST", TriggerPath, Bearer \o K1, JSONBody(job, parameters)) :
        job \in JobNames, parameters \in ParameterMaps }

InitValidate ==
    /\ apiKeys = {K1}
    /\ InitOneRequest(ValidateRequests)

NextValidate == \E r \in Slots : Serve(r, GatewayCrumbAnswers, GatewayBuildAnswers)

SpecValidate == InitValidate /\ [][NextValidate]_vars

\* ------------------------------------------------- listing: SpecList

ListLimits == { <<>>, <<"1">>, <<"2">> }

ListOffsets == { <<>>, <<"1">>, <<"2">>, <<"3">> }

\* listings of every shape, and the other routes so that rows are added between
\* two listings
ListRequests ==
    BaselineRequests \cup
    { ListRequest(Bearer \o K1, limit, offset) : limit \in ListLimits, offset \in ListOffsets }

NextList ==
    \E r \in Slots :
        \/ ReceiveNext(r, ListRequests)
        \/ Serve(r, GatewayCrumbAnswers, GatewayBuildAnswers)

SpecList == Init /\ [][NextList]_vars

\* ------------------------------------------------------ CORS: SpecCors

HttpA == <<"h","t","t","p",":","/","/","a">>
HttpsBC == <<"h","t","t","p","s",":","/","/","B",".","c">>
FileA == <<"f","i","l","e",":","/","/","a">>

OriginLists == { <<>>, <<HttpA>>, <<HttpA, HttpsBC, FileA, <<"a">>>> }

Origins ==
    { <<>>, HttpA,
      <<"h","t","t","p",":","/","/","A">>,
      <<"H","T","T","P",":","/","/","a">>,
      <<"h","t","t","p","s",":","/","/","b",".","C">>,
      <<"h","t","t","p",":","/","/","x">>,
      <<"h","t","t","p",":","/","/","a","a">>,
      FileA, <<"a">> }

CorsRequests ==
    BaselineRequests \cup
    { FullRequest(target[1], target[2], Bearer \o K1, <<>>, origin, <<"r">>, <<>>, <<>>,
                  JSONBody(JobA, NilParams)) :
        target \in {<<"GET", "/">>, <<"POST", TriggerPath>>, <<"OPTIONS", TriggerPath>>,
                    <<"OPTIONS", "/">>},
        origin \in Origins }

InitCors ==
    /\ apiKeys = {K1}
    /\ allowedOrigins \in OriginLists
    /\ maxBodySize = DefaultMaxBodySize
    /\ InitArrived(CorsRequests)

NextCors == \E r \in Slots : Serve(r, GatewayCrumbAnswers, GatewayBuildAnswers)

SpecCors == InitCors /\ [][NextCors]_vars

\* ------------------------------------------- answers of Jenkins: SpecJenkins

CrumbAnswers ==
    { CrumbResponse("http", 200, <<"c">>, <<>>),
      CrumbResponse("http", 200, <<"c">>, <<"F">>),
      CrumbResponse("http", 200, <<>>, <<>>),
      CrumbResponse("http", 404, <<>>, <<>>),
      CrumbResponse("http", 503, <<"c">>, <<"F">>),
      CrumbResponse("badjson", 200, <<>>, <<>>),
      CrumbResponse("neterr", 0, <<>>, <<>>) }

\* values of the Location header of a 2xx answer
Locations ==
    { <<>>,
      <<"/","j","o","b","/","a","/","7","/">>,
      <<"j","o","b","/","a","/","7">>,
      <<"/","j","o","b","/","a","/","7","/","c","o","n","s","o","l","e">>,
      <<"/","q","u","e","u","e","/","i","t","e","m","/","5","/">>,
      <<"/","j","o","b","/","a","/">>,
      <<"/","j","o","b","/","a","/","/","7","/">>,
      <<"/","j","o","b","/","t","e","a","m","/","j","o","b","/","s","v","c","/","5","/">>,
      <<"/","j","o","b","/","a","/","7","?","d","=","0">>,
      <<"/","v","i","e","w","/","j","o","b","/","a","/","7","/">>,
      <<"h","t","t","p",":","/","/","j","/","j","o","b","/","a","/","7","/">>,
      <<"h","t","t","p","s",":","/","/","x","/","j","o","b","/","b","/","1","2","/">>,
      <<"h","t","t","p",":","/","/","j">>,
      <<"h","t","t","p",":","/","/","j","/","j","o","b","/","a","/","7","?","d","=","0">>,
      <<"h","t","t","p",":","/","/","j","/","j","o","b","/","a","%","2","0","b","/","7","/">>,
      <<"h","t","t","p",":","/","/","j","/","j","o","b","/","a","/","%","z","z","/">>,
      <<"h","t","t","p",":","/","/","j","/","q","u","e","u","e","/","i","t","e","m","/","5","/">> }

SuccessStatuses == {200, 201, 204, 299}

FailureStatuses ==
    {300, 304, 400, 401, 403, 404, 405, 409, 429, 499, 500, 501, 502, 503, 504, 599}

BuildAnswers ==
    { BuildResponse("http", 201, location, <<>>) : location \in Locations } \cup
    { BuildResponse("http", status, <<>>, <<>>) : status \in SuccessStatuses } \cup
    { BuildResponse("http", status, <<>>, body) :
        status \in FailureStatuses, body \in {<<>>, <<"x">>} } \cup
    { BuildResponse("neterr", 0, <<>>, <<>>), BuildResponse("readerr", 200, <<>>, <<>>) }

JenkinsRequests ==
    BaselineRequests \cup
    { Request("POST", TriggerPath, Bearer \o K1, JSONBody(job, parameters)) :
        job \in {JobA, <<"a"," ","b">>}, parameters \in {NilParams, ParamsOf(<<>>), OneParam} }

InitJenkins ==
    /\ apiKeys = {K1}
    /\ InitOneRequest(JenkinsRequests)

NextJenkins == \E r \in Slots : Serve(r, CrumbAnswers, BuildAnswers)

SpecJenkins == InitJenkins /\ [][NextJenkins]_vars

\* ------------------------------------- bodies of failed answers: SpecLeak

LeakRequests ==
    { Request("GET", "/", <<>>, EmptyBody),
      Request("GET", "/health", <<>>, EmptyBody),
      Request("POST", TriggerPath, Bearer \o K1, JSONBody(JobA, NilParams)),
      ListRequest(Bearer \o K1, <<>>, <<>>) }

LeakCrumbAnswers == { CrumbResponse("http", 404, <<>>, <<>>) }

LeakAnswers ==
    { BuildResponse("http", 500, <<>>, <<"x">>),
      BuildResponse("http", 500, <<>>, <<"y">>),
      BuildResponse("http", 404, <<>>, <<"x">>),
      BuildResponse("http", 201, <<"/","j","o","b","/","a","/","7","/">>, <<>>) }

InitLeak ==
    /\ apiKeys = {K1}
    /\ allowedOrigins = <<>>
    /\ maxBodySize = DefaultMaxBodySize
    /\ ledger = <<>>
    /\ seq = 0
    /\ InitRequests

NextLeak ==
    \E r \in Slots :
        \/ ReceiveNext(r, LeakRequests)
        \/ Serve(r, LeakCrumbAnswers, LeakAnswers)

SpecLeak == InitLeak /\ [][NextLeak]_vars

\* ------------------------------------------------ body size: SpecLimit

SmallBodySize == 1024

BodyCeilings == {SmallBodySize, DefaultMaxBodySize}

\* bodies just under, at and just over each ceiling
BodySizes == UNION {{c - 1, c, c + 1} : c \in BodyCeilings}

LimitRequests ==
    BaselineRequests \cup
    { Request("POST", TriggerPath, Bearer \o K1, JSONBodyOfSize(JobA, NilParams, n)) :
        n \in BodySizes }

InitLimit ==
    /\ apiKeys = {K1}
    /\ allowedOrigins = <<>>
    /\ maxBodySize \in BodyCeilings
    /\ InitArrived(LimitRequests)

NextLimit == \E r \in Slots : Serve(r, GatewayCrumbAnswers, GatewayBuildAnswers)

SpecLimit == InitLimit /\ [][NextLimit]_vars

\* ------------------------------------------------ cancellation: SpecCancel

\* the client of request r goes away, or its deadline passes, while the engine
\* call is under way: net/http cancels r.Context().  The handler hands the
\* engine the job name and the parameters only, so nothing of the engine call
\* reads this context.
CancelRequest(r) ==
    /\ pc[r] \in {"crumb", "post"}
    /\ ~ctx[r].cancelled
    /\ ctx' = [ctx EXCEPT ![r].cancelled = TRUE]
    /\ UNCHANGED <<config, ledger, seq, pc, req, resp, stages, call, sent>>

CancelRequests ==
    BaselineRequests \cup
    { Request("POST", TriggerPath, Bearer \o K1, JSONBody(JobA, OneParam)) }

InitCancel ==
    /\ apiKeys = {K1}
    /\ InitOneRequest(CancelRequests)

NextCancel ==
    \E r \in Slots :
        \/ Serve(r, CrumbAnswers, GatewayBuildAnswers)
        \/ CancelRequest(r)

SpecCancel == InitCancel /\ [][NextCancel]_vars

\* ------------------------------------------------ request ids: SpecRequestID

\* values of the X-Request-ID header: absent, an id, an id between blanks,
\* blanks only
RequestIDHeaders ==
    { <<>>, <<"r">>, <<"c","u","s","t","o","m","-","i","d">>, <<" ","r"," ">>,
      <<" "," "," ">>, <<"\t">> }

\* requests that end in each kind of answer: plain text, a 401 of the
\* authentication link, a 400 and a 500 of the trigger handler, a result
RequestIDRequests ==
    { FullRequest(t[1], t[2], t[3], <<>>, <<>>, h, <<>>, <<>>, t[4]) :
        h \in RequestIDHeaders,
        t \in { <<"GET", "/", <<>>, EmptyBody>>,
                <<"POST", TriggerPath, <<>>, JSONBody(JobA, NilParams)>>,
                <<"POST", TriggerPath, Bearer \o K1, MalformedBody>>,
                <<"POST", TriggerPath, Bearer \o K1, JSONBody(<<>>, NilParams)>>,
                <<"POST", TriggerPath, Bearer \o K1, JSONBody(JobA, NilParams)>>,
                <<"OPTIONS", TriggerPath, <<>>, EmptyBody>>,
                <<"GET", "/health", <<>>, EmptyBody>>,
                <<"GET", AuditPath, Bearer \o K1, EmptyBody>> } }

InitRequestID ==
    /\ apiKeys = {K1}
    /\ InitOneRequest(RequestIDRequests)

NextRequestID ==
    \E r \in Slots : Serve(r, GatewayCrumbAnswers, GatewayBuildAnswers)

SpecRequestID == InitRequestID /\ [][NextRequestID]_vars

\* ------------------------------------------------ paging values: SpecQuery

\* texts of the limit and offset parameters: absent, numbers around the
\* defaults, signed, with leading zeros, not numbers, and numbers around the
\* largest int
QueryValues ==
    { <<>>, <<"0">>, <<"1">>, <<"5">>, <<"1","0","0">>, <<"1","0","1">>,
      <<"1","0","0","0">>, <<"-","1">>, <<"-","0">>, <<"+","5">>, <<"0","0","7">>,
      <<"a","b","c">>, <<"1","x">>, <<" ","1">>, <<"1",".","5">>, <<"-">>,
      <<"9","2","2","3","3","7","2","0","3","6","8","5","4","7","7","5","8","0","8">>,
      <<"-">> \o Rep("9", 20) }

QueryRequests ==
    BaselineRequests \cup
    { ListRequest(Bearer \o K1, limit, offset) :
        limit \in QueryValues, offset \in QueryValues }

InitQuery ==
    /\ apiKeys = {K1}
    /\ InitOneRequest(QueryRequests)

NextQuery ==
    \E r \in Slots : Serve(r, GatewayCrumbAnswers, GatewayBuildAnswers)

SpecQuery == InitQuery /\ [][NextQuery]_vars

\* ------------------------------------------- concurrent triggers: SpecConcurrent

\* trigger attempts that differ in job, key and parameters
ConcurrentRequests ==
    { Request("POST", TriggerPath, Bearer \o K1, JSONBody(JobA, NilParams)),
      Request("POST", TriggerPath, K2, JSONBody(JobB, OneParam)) }

InitConcurrent ==
    /\ apiKeys = {K1, K2}
    /\ allowedOrigins = <<>>
    /\ maxBodySize = DefaultMaxBodySize
    /\ ledger = <<>>
    /\ seq = 0
    /\ InitRequests

\* each request is served by a goroutine of its own: a request may arrive while
\* the earlier ones are under way, and the steps of the requests interleave.
\* The handlers share the table alone; db.Exec is one step (SQLite lets one
\* writer in at a time).
NextConcurrent ==
    \E r \in Slots :
        \/ Receive(r, ConcurrentRequests)
        \/ RequestIDMiddleware(r)
        \/ LimitBodySize(r)
        \/ corsMiddleware(r)
        \/ MuxServeHTTP(r)
        \/ AuthMiddleware(r)
        \/ TriggerJenkinsBuild(r)
        \/ TriggerBuild(r)
        \/ GetCrumb(r, LeakCrumbAnswers)
        \/ PostBuild(r, GatewayBuildAnswers)
        \/ InsertAuditLog(r)
        \/ WriteResult(r)

SpecConcurrent == InitConcurrent /\ [][NextConcurrent]_vars

\* ------------------------------------------------ ledger writers: SpecFrame

\* one request of every route and method the router tells apart, a trigger
\* attempt among them, and a request for a path no pattern names
FrameRequests ==
    { Request("GET", "/", <<>>, EmptyBody),
      Request("GET", "/health", <<>>, EmptyBody),
      ListRequest(Bearer \o K1, <<>>, <<>>),
      Request("OPTIONS", TriggerPath, Bearer \o K1, JSONBody(JobA, NilParams)),
      Request("GET", "/api/v1/unknown", Bearer \o K1, JSONBody(JobA, NilParams)),
      Request("POST", TriggerPath, Bearer \o K1, JSONBody(JobA, NilParams)) }

NextFrame ==
    \E r \in Slots :
        \/ ReceiveNext(r, FrameRequests)
        \/ Serve(r, LeakCrumbAnswers, GatewayBuildAnswers)

SpecFrame == InitLeak /\ [][NextFrame]_vars

\* ------------------------------------------------------------------ claims

Range(f) == {f[x] : x \in DOMAIN f}

ProtectedPaths == {TriggerPath, AuditPath}

Handlers == {"root", "health", "trigger", "audit"}

\* the request of slot r has arrived and fails the API-key check
C1_Rejected(r) ==
    /\ pc[r] # "idle"
    /\ req[r].path \in ProtectedPaths
    /\ ~ValidateAPIKey(GetAPIKey(req[r]))

\* no handler ran for slot r, nothing went to Jenkins, no entry was appended
C1_NoEffect(r) ==
    /\ Range(stages[r]) \cap Handlers = {}
    /\ sent[r] = <<>>
    /\ call[r].appends = 0 /\ call[r].rowids = {}
    /\ ~ctx[r].has_api_key

\* C1 as stated: every request to a protected route whose API key is missing or
\* not in the allow-list is answered with 401, and no handler runs for it, no
\* request goes to Jenkins and no audit entry is appended.
C1_Original ==
    \A r \in Slots :
        C1_Rejected(r) =>
            /\ C1_NoEffect(r)
            /\ pc[r] = "done" => resp[r].status = StatusUnauthorized

\* C1 as amended: a request to a protected route that fails the API-key check
\* runs no handler, sends nothing to Jenkins and appends no audit entry; it is
\* answered with 401 by the authentication link, unless its method is OPTIONS:
\* then the CORS link answers 200 before authentication is reached.
C1_RejectedStopsAtAuth ==
    \A r \in Slots :
        C1_Rejected(r) =>
            /\ C1_NoEffect(r)
            /\ (pc[r] = "done" /\ req[r].method # "OPTIONS") =>
                   /\ resp[r].status = StatusUnauthorized
                   /\ stages[r][Len(stages[r])] = "auth"
            /\ (pc[r] = "done" /\ req[r].method = "OPTIONS") =>
                   /\ resp[r].status = StatusOK
                   /\ "auth" \notin Range(stages[r])

\* a request other than OPTIONS without a valid key has been answered 401
C1_Witness ==
    \E r \in Slots :
        /\ C1_Rejected(r)
        /\ req[r].method = "POST"
        /\ pc[r] = "done"
        /\ resp[r].status = StatusUnauthorized

\* the key the claim reads off the Authorization header: the value without one
\* leading "Bearer " and without surrounding whitespace
C2_ClaimedKey(request) == TrimSpace(TrimPrefix(request.authorization, Bearer))

\* slot r went through the authentication link
C2_Decided(r) == "auth" \in Range(stages[r]) /\ pc[r] # "auth"

\* C2: a request is authenticated if and only if the value of its Authorization
\* header, with an optional leading "Bearer " and surrounding whitespace removed,
\* is a member of the allow-list; the query parameter api_key plays no part.
C2_HeaderDecides ==
    \A r \in Slots :
        C2_Decided(r) =>
            (ctx[r].has_api_key <=> C2_ClaimedKey(req[r]) \in apiKeys)


\* slot r holds an authenticated trigger request with a JSON body, and the
\* handler and the trigger have made their checks of it
C3_Checked(r) ==
    /\ "trigger" \in Range(stages[r])
    /\ pc[r] \notin {"trigger", "engine"}
    /\ ctx[r].has_api_key
    /\ req[r].body.kind = "json"

C3_NameChars ==
    Lower \cup Upper \cup Digit \cup {"_", "-", "/", " "}

\* non-empty, at most 255 characters, only letters, digits, "_", "-", "/", " "
C3_ValidName(job) ==
    /\ job # <<>>
    /\ Len(job) <= 255
    /\ \A i \in 1..Len(job) : job[i] \in C3_NameChars

\* the request of slot r was turned down because of its job name
C3_NameRejected(r) ==
    \/ /\ resp[r].status = StatusBadRequest
       /\ resp[r].body.error \in {"Job name is required", "Invalid job name format",
                                   "Job name exceeds maximum length of 255 characters"}
    \/ call[r].err.msg \in {"job name cannot be empty", "invalid job name format"}

\* C3: for an authenticated trigger request, a job name that is non-empty, at
\* most 255 characters long and made of letters, digits, "_", "-", "/" and " "
\* passes job-name validation; every other job name is answered with 400 and
\* nothing is sent to Jenkins.
C3_JobNameValidation ==
    \A r \in Slots :
        C3_Checked(r) =>
            IF C3_ValidName(req[r].body.job)
            THEN ~C3_NameRejected(r)
            ELSE /\ pc[r] = "done"
                 /\ resp[r].status = StatusBadRequest
                 /\ sent[r] = <<>>

C4_KeyChars == Lower \cup Upper \cup Digit \cup {"_", "-"}

\* segments of letters, digits, "_" and "-" joined by single dots
C4_DottedIdentifier(key) ==
    /\ key # <<>>
    /\ \A i \in 1..Len(key) : key[i] \in C4_KeyChars \cup {"."}
    /\ key[1] # "." /\ key[Len(key)] # "."
    /\ \A i \in 1..(Len(key) - 1) : ~(key[i] = "." /\ key[i + 1] = ".")

\* the parameter map breaks one of the limits
C4_BadParameters(ps) ==
    /\ ~ps.nil
    /\ \/ Cardinality(DOMAIN ps.m) > 100
       \/ \E k \in DOMAIN ps.m :
             \/ k = <<>>
             \/ Len(k) > 255
             \/ ~C4_DottedIdentifier(k)
             \/ Len(ps.m[k]) > 10240

\* C4: a trigger request whose parameter map has more than 100 entries, or a key
\* that is empty, longer than 255 characters or not a dotted identifier, or a
\* value longer than 10 KB fails validation: it is answered with 400, the engine
\* is not called and nothing is sent to Jenkins.
C4_BadParametersRejected ==
    \A r \in Slots :
        ( /\ "trigger" \in Range(stages[r])
          /\ pc[r] # "trigger"
          /\ req[r].body.kind = "json"
          /\ C4_BadParameters(req[r].body.parameters) ) =>
            /\ pc[r] = "done"
            /\ resp[r].status = StatusBadRequest
            /\ sent[r] = <<>>
            /\ ~call[r].resolved /\ call[r].appends = 0

\* a request with a valid job name and a bad parameter map has been answered
\* 400 for the map
C4_Witness ==
    \E r \in Slots :
        /\ pc[r] = "done"
        /\ "trigger" \in Range(stages[r])
        /\ C3_ValidName(req[r].body.job)
        /\ C4_BadParameters(req[r].body.parameters)
        /\ resp[r].status = StatusBadRequest
        /\ resp[r].body.error = "Parameter value exceeds maximum length of 10KB"


\* the ids of the rows of the ledger
LedgerIDs == {ledger[i].id : i \in 1..Len(ledger)}

\* the row of the ledger with id n
RowOf(n) == ledger[CHOOSE i \in 1..Len(ledger) : ledger[i].id = n]

\* slot r holds a trigger attempt: the handler calls the engine, the call is
\* under way or it has resolved
C5_Attempt(r) == pc[r] \in {"engine", "crumb", "post"} \/ call[r].resolved

\* the response of slot r has been returned
C5_Returned(r) == pc[r] = "done"

\* C5 as stated: a trigger attempt has no audit entry before the Trigger call
\* has resolved, and exactly one, never two, once its response is returned.
C5_ExactlyOneEntry ==
    \A r \in Slots :
        C5_Attempt(r) =>
            /\ ~call[r].resolved => call[r].rowids = {}
            /\ Cardinality(call[r].rowids) <= 1
            /\ C5_Returned(r) => Cardinality(call[r].rowids) = 1

\* C5 as the code has it: the handler makes exactly one append for a trigger
\* attempt, after the Trigger call has resolved and before the response is
\* returned; the attempt has one entry when that append succeeds and none when
\* it fails, and never two.
C5_OneAppendPerAttempt ==
    \A r \in Slots :
        /\ call[r].rowids \subseteq LedgerIDs
        /\ ~C5_Attempt(r) => call[r].appends = 0 /\ call[r].rowids = {}
        /\ C5_Attempt(r) =>
            /\ ~call[r].resolved => call[r].appends = 0 /\ call[r].rowids = {}
            /\ call[r].appends <= 1
            /\ Cardinality(call[r].rowids) = (IF call[r].inserted THEN 1 ELSE 0)
            /\ C5_Returned(r) => call[r].appends = 1 /\ call[r].resolved

\* two attempts have been answered: the append of one succeeded, the append of
\* the other failed
C5_Witness ==
    \E r1, r2 \in Slots :
        /\ C5_Attempt(r1) /\ C5_Returned(r1) /\ call[r1].inserted
        /\ Cardinality(call[r1].rowids) = 1
        /\ C5_Attempt(r2) /\ C5_Returned(r2) /\ ~call[r2].inserted
        /\ call[r2].appends = 1 /\ call[r2].rowids = {}

\* C6: the audit entry of a trigger attempt agrees with its response: without
\* an error the response is 200 and the entry says "success", 200 and no error
\* text; with an error the response is 500 and the entry says "failed", 500 and
\* the error's text; the entry's job name, method and path are the request's.
C6_EntryAgreesWithResponse ==
    \A r \in Slots :
        (C5_Attempt(r) /\ C5_Returned(r)) =>
            /\ resp[r].status = (IF call[r].err.isNil THEN 200 ELSE 500)
            /\ \A n \in call[r].rowids :
                  /\ RowOf(n).status = resp[r].status
                  /\ RowOf(n).result = (IF call[r].err.isNil THEN "success" ELSE "failed")
                  /\ RowOf(n).error = (IF call[r].err.isNil THEN NoErrorText
                                       ELSE ErrorText(call[r].err))
                  /\ RowOf(n).job_name = req[r].body.job
                  /\ RowOf(n).method = req[r].method
                  /\ RowOf(n).path = req[r].path

\* an attempt that ended in an error has been answered and its entry is in the
\* ledger
C6_Witness ==
    \E r \in Slots :
        /\ C5_Attempt(r) /\ C5_Returned(r)
        /\ ~call[r].err.isNil
        /\ resp[r].status = 500
        /\ \E n \in call[r].rowids : RowOf(n).result = "failed"

\* C7: a failure of the ledger append never changes the response of a trigger
\* attempt: the status follows the Trigger outcome alone and the body is the
\* BuildResult, so two attempts with the same outcome get the same status and
\* body whether or not their appends succeeded.
C7_AppendFailureKeepsResponse ==
    /\ \A r \in Slots :
          (C5_Attempt(r) /\ C5_Returned(r)) =>
              /\ resp[r].status = (IF call[r].err.isNil THEN 200 ELSE 500)
              /\ resp[r].body = [kind |-> "result", result |-> call[r].result]
    /\ \A r1, r2 \in Slots :
          ( /\ C5_Attempt(r1) /\ C5_Returned(r1)
            /\ C5_Attempt(r2) /\ C5_Returned(r2)
            /\ call[r1].result = call[r2].result
            /\ call[r1].err = call[r2].err ) =>
              /\ resp[r1].status = resp[r2].status
              /\ resp[r1].body = resp[r2].body

\* two attempts with the same successful outcome have been answered, the append
\* of one succeeded and the append of the other failed
C7_Witness ==
    \E r1, r2 \in Slots :
        /\ C5_Attempt(r1) /\ C5_Returned(r1)
        /\ C5_Attempt(r2) /\ C5_Returned(r2)
        /\ call[r1].result = call[r2].result
        /\ call[r1].err = call[r2].err
        /\ call[r1].err.isNil
        /\ call[r1].inserted /\ ~call[r2].inserted
        /\ resp[r1].status = 200 /\ resp[r2].status = 200

\* one step keeps every row where it was, unchanged, and gives each new row an
\* id above every id already there; the ids stay pairwise distinct
C8_Step ==
    /\ Len(ledger') >= Len(ledger)
    /\ SubSeq(ledger', 1, Len(ledger)) = ledger
    /\ \A i \in (Len(ledger) + 1)..Len(ledger') :
          \A j \in 1..Len(ledger) : ledger'[i].id > ledger[j].id
    /\ \A i, j \in 1..Len(ledger') : i # j => ledger'[i].id # ledger'[j].id

\* C8: the ledger is append-only: every entry once in it stays with all its
\* fields unchanged, ids are pairwise distinct, and each new entry gets an id
\* strictly greater than every id already in the ledger.
C8_AppendOnly == [][C8_Step]_vars

\* entries were in the ledger at the start and two requests have each added one
C8_Witness ==
    /\ Len(ledger) >= 3
    /\ \E r1, r2 \in Slots :
          /\ r1 # r2
          /\ call[r1].rowids # {} /\ call[r2].rowids # {}
          /\ \E i \in 1..Len(ledger) : ledger[i].id \notin (call[r1].rowids \cup call[r2].rowids)

\* slot r holds a listing that has been answered with rows
C9_Listed(r) ==
    /\ pc[r] = "done"
    /\ req[r].path = AuditPath
    /\ resp[r].status = 200
    /\ resp[r].body.kind = "logs"

\* the rows the ledger held when the listing of slot r ran
C9_Rows(r) == {call[r].snapshot[i] : i \in 1..Len(call[r].snapshot)}

\* the place of row x among the rows of set S sorted by id descending, from 0
C9_Position(x, S) == Cardinality({y \in S : y.id > x.id})

C9_Max(a, b) == IF a >= b THEN a ELSE b

C9_Min(a, b) == IF a <= b THEN a ELSE b

\* the listing of slot r holds the rows at positions offset .. offset+limit-1
C9_Page(r) ==
    LET logs == resp[r].body.logs
        n == Len(call[r].snapshot)
    IN  /\ Len(logs) = C9_Max(0, C9_Min(call[r].limit, n - call[r].offset))
        /\ \A i \in 1..Len(logs) :
              /\ logs[i] \in C9_Rows(r)
              /\ C9_Position(logs[i], C9_Rows(r)) = call[r].offset + i - 1

\* C9: with no append in between, list(limit, offset) returns exactly the
\* entries at positions offset .. offset+limit-1 of the ledger sorted by id
\* descending, fewer when the ledger ends sooner and none when offset is at or
\* beyond its size; list(N,0) returns all N, and list(k,0) followed by
\* list(N-k,k) returns every entry once, with no overlap and no gap.
C9_Pagination ==
    /\ \A r \in Slots : C9_Listed(r) => C9_Page(r)
    /\ \A r \in Slots :
          (C9_Listed(r) /\ call[r].offset = 0 /\ call[r].limit >= Len(call[r].snapshot)) =>
              {resp[r].body.logs[i] : i \in 1..Len(resp[r].body.logs)} = C9_Rows(r)
    /\ \A r1, r2 \in Slots :
          ( /\ C9_Listed(r1) /\ C9_Listed(r2)
            /\ call[r1].snapshot = call[r2].snapshot
            /\ call[r1].offset = 0
            /\ call[r1].limit < Len(call[r1].snapshot)
            /\ call[r2].offset = call[r1].limit
            /\ call[r2].limit = Len(call[r1].snapshot) - call[r1].limit ) =>
              LET both == resp[r1].body.logs \o resp[r2].body.logs
              IN  /\ Len(both) = Len(call[r1].snapshot)
                  /\ {both[i] : i \in 1..Len(both)} = C9_Rows(r1)
                  /\ \A i, j \in 1..Len(both) : i < j => both[i].id > both[j].id

\* list(1,0) and then list(1,1) have been answered over a ledger of two rows
C9_Witness ==
    \E r1, r2 \in Slots :
        /\ C9_Listed(r1) /\ C9_Listed(r2)
        /\ Len(call[r1].snapshot) = 2
        /\ call[r1].snapshot = call[r2].snapshot
        /\ call[r1].limit = 1 /\ call[r1].offset = 0
        /\ call[r2].limit = 1 /\ call[r2].offset = 1
        /\ Len(resp[r1].body.logs) = 1 /\ Len(resp[r2].body.logs) = 1
        /\ resp[r1].body.logs[1].id > resp[r2].body.logs[1].id

\* the stages a request to `path` goes through when no link ends it early
C10_Order(path) ==
    <<"requestid", "bodylimit", "cors", "mux">>
    \o (IF path \in ProtectedPaths THEN <<"auth">> ELSE <<>>)
    \o << CASE path = TriggerPath -> "trigger"
            [] path = AuditPath -> "audit"
            [] path = "/health" -> "health"
            [] OTHER -> "root" >>

\* C10: every request goes through request-id assignment, body-size limiting,
\* the CORS decision, then API-key authentication on protected routes, then the
\* handler, in this order; every response, whatever its route, method or
\* status, carries X-Request-ID, Access-Control-Allow-Methods and
\* Access-Control-Allow-Headers.
C10_ChainOrderAndHeaders ==
    \A r \in Slots :
        pc[r] # "idle" =>
            /\ Len(stages[r]) <= Len(C10_Order(req[r].path))
            /\ stages[r] = SubSeq(C10_Order(req[r].path), 1, Len(stages[r]))
            /\ pc[r] = "done" =>
                  /\ Len(stages[r]) >= 3
                  /\ {"X-Request-ID", "Access-Control-Allow-Methods",
                      "Access-Control-Allow-Headers"} \subseteq DOMAIN resp[r].headers
                  /\ resp[r].headers["Access-Control-Allow-Methods"] = "GET, POST, OPTIONS"
                  /\ resp[r].headers["Access-Control-Allow-Headers"] = "Content-Type, Authorization"

\* a 401 and a 500 have been returned, the one stopped at authentication and
\* the other after the whole chain, both with the three headers
C10_Witness ==
    \E r1, r2 \in Slots :
        /\ pc[r1] = "done" /\ resp[r1].status = 401
        /\ stages[r1] = <<"requestid", "bodylimit", "cors", "mux", "auth">>
        /\ "X-Request-ID" \in DOMAIN resp[r1].headers
        /\ pc[r2] = "done" /\ resp[r2].status = 500
        /\ stages[r2][Len(stages[r2])] = "trigger"
        /\ "Access-Control-Allow-Methods" \in DOMAIN resp[r2].headers


\* the CORS link has looked at the request of slot r
C11_Decided(r) == "cors" \in Range(stages[r]) /\ pc[r] # "cors"

\* the two characters are the same letter in either case, or the same character
C11_SameChar(a, b) ==
    \/ a = b
    \/ \E i \in 1..26 : {a, b} = {UpperSeq[i], LowerSeq[i]}

C11_EqualIgnoringCase(s, t) ==
    /\ Len(s) = Len(t)
    /\ \A i \in 1..Len(s) : C11_SameChar(s[i], t[i])

C11_HasScheme(origin) ==
    \/ (Len(origin) >= 7 /\ SubSeq(origin, 1, 7) = <<"h","t","t","p",":","/","/">>)
    \/ (Len(origin) >= 8 /\ SubSeq(origin, 1, 8) = <<"h","t","t","p","s",":","/","/">>)

C11_Listed(origin) ==
    /\ origin # <<>>
    /\ C11_HasScheme(origin)
    /\ \E i \in 1..Len(allowedOrigins) : C11_EqualIgnoringCase(origin, allowedOrigins[i])

\* C11: with an empty origin allow-list every response carries
\* Access-Control-Allow-Origin: *; with a non-empty one the header is there,
\* with the request's own Origin value, exactly when the Origin is present,
\* starts with http:// or https:// and equals an entry ignoring case; when the
\* header is left out the request still goes on through the rest of the chain.
C11_CorsDecision ==
    \A r \in Slots :
        C11_Decided(r) =>
            /\ allowedOrigins = <<>> =>
                  /\ "Access-Control-Allow-Origin" \in DOMAIN resp[r].headers
                  /\ resp[r].headers["Access-Control-Allow-Origin"] = <<"*">>
            /\ allowedOrigins # <<>> =>
                  /\ "Access-Control-Allow-Origin" \in DOMAIN resp[r].headers
                        <=> C11_Listed(req[r].origin)
                  /\ C11_Listed(req[r].origin) =>
                        resp[r].headers["Access-Control-Allow-Origin"] = req[r].origin
            /\ req[r].method # "OPTIONS" => "mux" \in Range(stages[r])
            /\ (req[r].method # "OPTIONS" /\ pc[r] = "done") =>
                  stages[r][Len(stages[r])] \in Handlers

\* an origin that differs from its entry in case only has been echoed, and the
\* request has been served
C11_Witness ==
    \E r \in Slots :
        /\ pc[r] = "done"
        /\ allowedOrigins # <<>>
        /\ req[r].origin \notin Range(allowedOrigins)
        /\ C11_Listed(req[r].origin)
        /\ resp[r].headers["Access-Control-Allow-Origin"] = req[r].origin
        /\ stages[r][Len(stages[r])] = "trigger"


\* C12: an OPTIONS request, to any route and with or without a valid API key,
\* is answered 200 with no body once the CORS headers are set; authentication
\* and the handlers do not run for it: it never gets 401, nothing is sent to
\* Jenkins and no audit entry is appended.
C12_PreflightShortCircuit ==
    \A r \in Slots :
        (pc[r] # "idle" /\ req[r].method = "OPTIONS") =>
            /\ Range(stages[r]) \subseteq {"requestid", "bodylimit", "cors"}
            /\ ~ctx[r].has_api_key
            /\ resp[r].status \in {0, 200}
            /\ sent[r] = <<>>
            /\ ~call[r].resolved
            /\ call[r].appends = 0 /\ call[r].rowids = {}
            /\ ledger = <<>>
            /\ pc[r] = "done" =>
                  /\ resp[r].status = 200
                  /\ resp[r].body = [kind |-> "none"]
                  /\ stages[r] = <<"requestid", "bodylimit", "cors">>
                  /\ {"Access-Control-Allow-Methods", "Access-Control-Allow-Headers"}
                        \subseteq DOMAIN resp[r].headers

\* an OPTIONS request with a valid key to the trigger route has been answered
C12_Witness ==
    \E r \in Slots :
        /\ pc[r] = "done"
        /\ req[r].method = "OPTIONS"
        /\ req[r].path = TriggerPath
        /\ ValidateAPIKey(GetAPIKey(req[r]))
        /\ resp[r].status = 200


\* C13: for every request that passes authentication, the API key attached to
\* the request context, and so the api_key of the audit entry written for it,
\* is the allow-list member that matched: never a value with extra white space
\* or a "Bearer " prefix, never the placeholder "unknown".
C13_ContextKeyIsMember ==
    \A r \in Slots :
        ctx[r].has_api_key =>
            /\ ctx[r].api_key \in apiKeys
            /\ \A n \in call[r].rowids :
                  RowOf(n).api_key \in apiKeys /\ RowOf(n).api_key # Unknown


\* the crumb request of slot r has been answered and has failed
C14_CrumbFailed(r) ==
    /\ pc[r] \in {"post", "insert", "respond", "done"}
    /\ \/ call[r].crumbAnswer.kind \in {"neterr", "badjson"}
       \/ call[r].crumbAnswer.kind = "http" /\ call[r].crumbAnswer.status # 200

\* Jenkins answered the build POST of slot r with a 2xx status
C14_PostSucceeded(r) ==
    /\ call[r].answer.kind = "http"
    /\ call[r].answer.status >= 200 /\ call[r].answer.status < 300

\* the form of the build POST when there is no crumb
C14_PlainForm(params) ==
    IF params.nil \/ DOMAIN params.m = {}
    THEN (<<"j","s","o","n">> :> <<"{","}">>)
    ELSE params.m

\* C14: the crumb is advisory: when the crumb fetch fails (a status other than
\* 200, a network error or malformed JSON) the build is still dispatched,
\* without a crumb, and its outcome is that of the build POST alone: it succeeds
\* when the POST succeeds, for builds with and without parameters.
C14_CrumbAdvisory ==
    \A r \in Slots :
        (C14_CrumbFailed(r) /\ pc[r] # "post") =>
            /\ Len(sent[r]) = 2
            /\ sent[r][2].method = "POST"
            /\ sent[r][2].crumbHeader = <<>>
            /\ sent[r][2].form = C14_PlainForm(req[r].body.parameters)
            /\ call[r].resolved
            /\ call[r].err.isNil <=> C14_PostSucceeded(r)
            /\ call[r].result.success <=> C14_PostSucceeded(r)
            /\ pc[r] = "done" => (resp[r].status = 200 <=> C14_PostSucceeded(r))

\* a build with parameters has succeeded after the crumb issuer answered 404
C14_Witness ==
    \E r \in Slots :
        /\ pc[r] = "done"
        /\ call[r].crumbAnswer.kind = "http" /\ call[r].crumbAnswer.status = 404
        /\ ~req[r].body.parameters.nil /\ DOMAIN req[r].body.parameters.m # {}
        /\ Len(sent[r]) = 2 /\ sent[r][2].crumbHeader = <<>>
        /\ call[r].result.success
        /\ resp[r].status = 200


\* the segments of the path of a Location, absolute or relative
C15_Segments(location) ==
    LET absolute == \/ HasPrefix(location, <<"h","t","t","p",":","/","/">>)
                    \/ HasPrefix(location, <<"h","t","t","p","s",":","/","/">>)
        path == IF absolute THEN URLPath(location).path ELSE location
    IN  Split(TrimRightSlash(TrimLeftSlash(path)), "/")

C15_IsNumber(seg) == seg # <<>> /\ \A i \in 1..Len(seg) : seg[i] \in Digit

\* the segments have the shape job/<name>/<number>/...
C15_BuildShape(segs) ==
    /\ Len(segs) >= 3
    /\ segs[1] = <<"j","o","b">>
    /\ C15_IsNumber(segs[3])

\* C15: after a successful dispatch no error is raised and the build identity
\* follows the Location header: without a Location build_id is empty and
\* build_url is the job root made from the request path; a Location whose path
\* segments have the shape job/<name>/<number>/... gives build_id
\* <name>/<number> and build_url <base>/job/<name>/<number>/; any other shape
\* gives an empty build_id and an empty build_url.
C15_BuildIdentity ==
    \A r \in Slots :
        (call[r].resolved /\ C14_PostSucceeded(r)) =>
            LET location == call[r].answer.location
                segs == C15_Segments(location)
                result == call[r].result
            IN  /\ call[r].err.isNil
                /\ result.success
                /\ location = <<>> =>
                      /\ result.build_id = <<>>
                      /\ result.build_url =
                            JenkinsURL \o <<"/","j","o","b","/">>
                            \o PathEscape(req[r].body.job) \o <<"/">>
                /\ (location # <<>> /\ C15_BuildShape(segs)) =>
                      /\ result.build_id = segs[2] \o <<"/">> \o segs[3]
                      /\ result.build_url =
                            JenkinsURL \o <<"/","j","o","b","/">> \o segs[2]
                            \o <<"/">> \o segs[3] \o <<"/">>
                /\ (location # <<>> /\ ~C15_BuildShape(segs)) =>
                      /\ result.build_id = <<>>
                      /\ result.build_url = <<>>


\* the text of the category the status code of a failed answer falls in
C16_Category(status) ==
    CASE status = 401 -> "authentication failed: invalid credentials"
      [] status = 403 -> "access denied: insufficient permissions"
      [] status = 404 -> "resource not found"
      [] status = 400 -> "invalid request"
      [] status >= 500 /\ status <= 599 -> "jenkins server error: please try again later"
      [] OTHER -> "jenkins api request failed"

\* C16: a Jenkins answer with a status outside [200,300) gives an error of the
\* one category its status code fixes: 401 unauthorized, 403 forbidden, 404
\* not found, 400 bad request, every 5xx status upstream unavailable, every
\* other status the generic failure; a status inside [200,300) gives no error.
C16_SixCategories ==
    \A r \in Slots :
        (call[r].resolved /\ call[r].answer.kind = "http") =>
            IF call[r].answer.status >= 200 /\ call[r].answer.status < 300
            THEN call[r].err.isNil
            ELSE /\ ~call[r].err.isNil
                 /\ call[r].err.msg = C16_Category(call[r].answer.status)


\* Jenkins answered the build POST of slot r with a status outside [200,300)
C17_Failed(r) ==
    /\ call[r].resolved
    /\ call[r].answer.kind = "http"
    /\ (call[r].answer.status < 200 \/ call[r].answer.status >= 300)

\* C17: the body of a failed Jenkins answer never reaches the caller: two
\* failures with the same status code and different bodies give the same error,
\* the same BuildResult and the same HTTP response of the gateway.
C17_BodyNotReturned ==
    \A r1, r2 \in Slots :
        ( /\ C17_Failed(r1) /\ C17_Failed(r2)
          /\ call[r1].answer.status = call[r2].answer.status
          /\ call[r1].answer.body # call[r2].answer.body ) =>
            /\ call[r1].err = call[r2].err
            /\ call[r1].result = call[r2].result
            /\ (pc[r1] = "done" /\ pc[r2] = "done") =>
                  /\ resp[r1].status = resp[r2].status
                  /\ resp[r1].body = resp[r2].body

\* two requests have been answered after Jenkins failed with the same status
\* and different bodies
C17_Witness ==
    \E r1, r2 \in Slots :
        /\ C17_Failed(r1) /\ C17_Failed(r2)
        /\ pc[r1] = "done" /\ pc[r2] = "done"
        /\ call[r1].answer.status = 500 /\ call[r2].answer.status = 500
        /\ call[r1].answer.body = <<"x">> /\ call[r2].answer.body = <<"y">>
        /\ resp[r1].status = 500
        /\ resp[r1].body = resp[r2].body


\* the handler has read the JSON body of the trigger request of slot r
C18_BodyRead(r) ==
    /\ "trigger" \in Range(stages[r])
    /\ pc[r] # "trigger"
    /\ req[r].body.kind = "json"

\* C18: a trigger request is rejected for its size, with 413, exactly when its
\* body is longer than the configured ceiling: a body of the ceiling's length
\* is read without a size error, a body one byte longer is answered 413.
C18_TooLargeIs413 ==
    \A r \in Slots :
        C18_BodyRead(r) =>
            IF req[r].body.size > maxBodySize
            THEN pc[r] = "done" /\ resp[r].status = 413
            ELSE /\ resp[r].status # 413
                 /\ ~(resp[r].status = 400 /\ resp[r].body.error = "Invalid request body")


\* C19: when the context of an inbound trigger request is cancelled while the
\* crumb fetch or the build dispatch is in flight, the outbound call sees the
\* cancellation and aborts: the build POST does not run on to an answer of
\* Jenkins, and the engine call ends in an error.
C19_OutboundObservesCancel ==
    \A r \in Slots :
        (ctx[r].cancelled /\ call[r].resolved) =>
            /\ call[r].answer.kind = "none"
            /\ ~call[r].err.isNil
            /\ ~call[r].result.success

\* the request of slot r is a well-formed trigger request for a job in a folder
C20_FolderRequest(r) ==
    /\ C3_Checked(r)
    /\ C3_ValidName(req[r].body.job)
    /\ Contains(req[r].body.job, <<"/">>)
    /\ ~C4_BadParameters(req[r].body.parameters)

\* C20: a trigger request with a folder-qualified job name ("a/b") that is
\* valid otherwise passes the checks of the handler and of TriggerBuild and is
\* dispatched: once it is answered, it was not turned down for its job name
\* and the build POST for the job went to Jenkins.
C20_FolderJobDispatched ==
    \A r \in Slots :
        (C20_FolderRequest(r) /\ pc[r] = "done") =>
            /\ ~C3_NameRejected(r)
            /\ \E i \in 1..Len(sent[r]) : sent[r][i].method = "POST"

\* what the code does with such a request: the handler lets it through,
\* TriggerBuild refuses the name, nothing goes to Jenkins and the answer is a
\* 500 that names the job name format
C20_FolderJobRefusedByEngine ==
    \A r \in Slots :
        (C20_FolderRequest(r) /\ pc[r] = "done") =>
            /\ call[r].err.msg = "invalid job name format"
            /\ sent[r] = <<>>
            /\ resp[r].status = StatusInternalServerError

\* the request of slot r has passed the request id link
C21_Assigned(r) ==
    "requestid" \in Range(stages[r]) /\ pc[r] # "requestid"

\* C21: the request id is the X-Request-ID header of the request when that
\* is not blank after trimming, and a generated id when the header is absent,
\* empty or blank; the response's X-Request-ID header carries the same id, and
\* so does every error body that names a request id.
C21_RequestIDChoice ==
    \A r \in Slots :
        C21_Assigned(r) =>
            /\ ctx[r].has_request_id
            /\ IF TrimSpace(req[r].x_request_id) # <<>>
               THEN ctx[r].request_id = req[r].x_request_id
               ELSE ctx[r].request_id \in GeneratedIDs
            /\ "X-Request-ID" \in DOMAIN resp[r].headers
            /\ resp[r].headers["X-Request-ID"] = ctx[r].request_id
            /\ (resp[r].body.kind = "error" /\ "request_id" \in DOMAIN resp[r].body)
                   => resp[r].body.request_id = ctx[r].request_id

\* what the code does: only the empty header value is replaced
C21_OnlyEmptyReplaced ==
    \A r \in Slots :
        C21_Assigned(r) =>
            /\ IF req[r].x_request_id # <<>>
               THEN ctx[r].request_id = req[r].x_request_id
               ELSE ctx[r].request_id \in GeneratedIDs
            /\ resp[r].headers["X-Request-ID"] = ctx[r].request_id
            /\ (resp[r].body.kind = "error" /\ "request_id" \in DOMAIN resp[r].body)
                   => resp[r].body.request_id = ctx[r].request_id

\* C22: request ids are unique within a run of the process: no two requests
\* that were given a request id hold the same one.
C22_RequestIDsUnique ==
    \A r, q \in Slots :
        (r # q /\ ctx[r].has_request_id /\ ctx[q].has_request_id) =>
            ctx[r].request_id # ctx[q].request_id

\* two requests that brought the same X-Request-ID header share their id
C22_SuppliedIDShared ==
    \A r, q \in Slots :
        (/\ C21_Assigned(r) /\ C21_Assigned(q)
         /\ req[r].x_request_id # <<>>
         /\ req[r].x_request_id = req[q].x_request_id) =>
            ctx[r].request_id = ctx[q].request_id

\* the text is an optional sign and at least one decimal digit, of a value
\* the program's integers hold (at most 18 digits here, or the ends of the
\* range are not reached by the texts of QueryValues)
C23_IsInteger(s) ==
    LET body == IF s # <<>> /\ s[1] \in {"+", "-"} THEN SubSeq(s, 2, Len(s)) ELSE s
    IN  /\ body # <<>>
        /\ \A i \in 1..Len(body) : body[i] \in Digit
        /\ Len(TrimLeftZeros(body)) <= 18

C23_Value(s) ==
    IF s[1] = "-" THEN 0 - DigitsValue(SubSeq(s, 2, Len(s)))
    ELSE IF s[1] = "+" THEN DigitsValue(SubSeq(s, 2, Len(s)))
    ELSE DigitsValue(s)

\* the listing of slot r has read its parameters
C23_Listed(r) ==
    "audit" \in Range(stages[r]) /\ pc[r] = "done"

\* C23: on GET /api/v1/audit the effective limit is the caller's value when it
\* parses as an integer greater than 0, whatever its size, and 100 otherwise;
\* the effective offset is the caller's value when it parses as an integer
\* that is not negative, and 0 otherwise.
C23_LimitOffsetDefaults ==
    \A r \in Slots :
        C23_Listed(r) =>
            /\ call[r].limit =
                 (IF C23_IsInteger(req[r].limit_query) /\ C23_Value(req[r].limit_query) > 0
                  THEN C23_Value(req[r].limit_query) ELSE 100)
            /\ call[r].offset =
                 (IF C23_IsInteger(req[r].offset_query) /\ C23_Value(req[r].offset_query) >= 0
                  THEN C23_Value(req[r].offset_query) ELSE 0)

\* a listing with a limit above the default and one with a value that is no
\* number
C23_Witness ==
    \E r \in Slots :
        /\ C23_Listed(r)
        /\ call[r].limit = 1000
        /\ req[r].offset_query = <<"-","1">>
        /\ call[r].offset = 0

\* the places in sent[r] of the requests with the method
C24_Places(r, method) ==
    {i \in 1..Len(sent[r]) : sent[r][i].method = method}

\* Jenkins' answer to the build POST of slot r was a failure
C24_PostFailed(r) ==
    /\ call[r].resolved
    /\ call[r].answer.kind # "none"
    /\ \/ call[r].answer.kind # "http"
       \/ call[r].answer.status < 200
       \/ call[r].answer.status >= 300

C25_HasCrumb(r) ==
    /\ call[r].crumbAnswer.kind = "http"
    /\ call[r].crumbAnswer.status = 200
    /\ call[r].crumbAnswer.crumb # <<>>

C25_Parameterized(r) ==
    ~req[r].body.parameters.nil /\ DOMAIN req[r].body.parameters.m # {}

\* the build POSTs slot r has sent
C25_Posts(r) ==
    {sent[r][i] : i \in C24_Places(r, "POST")}

\* the crumb is in the form of the POST and in its header
C25_InBoth(r, post) ==
    /\ post.crumbHeader = <<call[r].crumbField, call[r].crumbValue>>
    /\ call[r].crumbField \in DOMAIN post.form
    /\ post.form[call[r].crumbField] = call[r].crumbValue

\* the POST carries no crumb at all
C25_InNeither(r, post) ==
    /\ post.crumbHeader = <<>>
    /\ DOMAIN post.form = (IF C25_Parameterized(r) THEN DOMAIN req[r].body.parameters.m
                           ELSE {<<"j","s","o","n">>})

\* C25: when the crumb request returned a crumb, every build POST, with or
\* without parameters, carries it both as a form field and as a header; when
\* there is no crumb it carries neither.
C25_CrumbInFormAndHeader ==
    \A r \in Slots :
        \A post \in C25_Posts(r) :
            IF C25_HasCrumb(r) THEN C25_InBoth(r, post) ELSE C25_InNeither(r, post)

\* what the code does: the POST without parameters carries the crumb in both
\* places, the POST with parameters in the header alone
C25_ParameterizedHeaderOnly ==
    \A r \in Slots :
        \A post \in C25_Posts(r) :
            IF ~C25_HasCrumb(r) THEN C25_InNeither(r, post)
            ELSE IF ~C25_Parameterized(r) THEN C25_InBoth(r, post)
            ELSE /\ post.crumbHeader = <<call[r].crumbField, call[r].crumbValue>>
                 /\ post.form = req[r].body.parameters.m

\* the job name as a path segment: a blank becomes %20, the other characters
\* of a job name that reaches the client stand for themselves
C26_Segment(name) ==
    IF name = <<>> THEN <<>>
    ELSE LET F[i \in 1..Len(name)] ==
                 (IF i = 1 THEN <<>> ELSE F[i - 1]) \o
                 (IF name[i] = " " THEN <<"%","2","0">> ELSE <<name[i]>>)
         IN  F[Len(name)]

\* the fields of the form that are not the crumb
C26_Fields(r, post) ==
    DOMAIN post.form \ {call[r].crumbField}

C27_Appended(r) ==
    call[r].appends = 1 /\ call[r].inserted

\* C27: when trigger requests are handled concurrently, in every interleaving
\* each attempt whose append succeeded has exactly one ledger entry, with its
\* own job name, API key, parameters and outcome; the ledger holds these
\* entries and no others, and their ids are pairwise distinct.
C27_ConcurrentAppends ==
    /\ \A i, j \in 1..Len(ledger) : i # j => ledger[i].id # ledger[j].id
    /\ Len(ledger) = Cardinality({r \in Slots : C27_Appended(r)})
    /\ \A r, q \in Slots : r # q => call[r].rowids \cap call[q].rowids = {}
    /\ \A r \in Slots :
          C27_Appended(r) =>
              /\ Cardinality(call[r].rowids) = 1
              /\ call[r].rowids \subseteq LedgerIDs
              /\ \A n \in call[r].rowids :
                    /\ RowOf(n).job_name = req[r].body.job
                    /\ RowOf(n).api_key = ctx[r].api_key
                    /\ RowOf(n).params = marshalParams(req[r].body.parameters)
                    /\ RowOf(n).result = (IF call[r].err.isNil THEN "success" ELSE "failed")
                    /\ RowOf(n).status = (IF call[r].err.isNil THEN 200 ELSE 500)

\* two attempts under way at once, the later request's entry written first,
\* the two with different jobs and outcomes
C27_Witness ==
    \E r, q \in Slots :
        /\ r < q
        /\ C27_Appended(r) /\ C27_Appended(q)
        /\ \E n \in call[r].rowids, k \in call[q].rowids : k < n
        /\ req[r].body.job # req[q].body.job
        /\ call[r].err.isNil /\ ~call[q].err.isNil

\* the trigger handler turned the request of slot r down with 400
C28_Rejected(r) ==
    /\ "trigger" \in Range(stages[r])
    /\ pc[r] = "done"
    /\ resp[r].status = 400

\* C28: a trigger request the handler turns down with 400 (body that cannot
\* be parsed, job name missing, too long or ill-formed, parameters invalid)
\* leaves the ledger as it was, empty here: no entry is appended for it, no id
\* is used up and no append is attempted.
C28_RejectedLeavesLedger ==
    \A r \in Slots :
        C28_Rejected(r) =>
            /\ ledger = <<>>
            /\ seq = 0
            /\ call[r].appends = 0
            /\ call[r].rowids = {}

\* a request turned down for its parameters
C28_Witness ==
    \E r \in Slots :
        /\ C28_Rejected(r)
        /\ req[r].body.kind = "json"
        /\ C3_ValidName(req[r].body.job)
        /\ C4_BadParameters(req[r].body.parameters)
        /\ ledger = <<>>

\* the request of slot r is no trigger attempt: it is not for the trigger
\* route, or it is an OPTIONS request
C29_NoTrigger(r) ==
    /\ req[r] # NoRequest
    /\ \/ req[r].path # "/api/v1/trigger/jenkins"
       \/ req[r].method = "OPTIONS"

\* a step changes the ledger only as the append of a trigger attempt
C29_Step ==
    (ledger' # ledger \/ seq' # seq) =>
        \E r \in Slots :
            /\ ~C29_NoTrigger(r)
            /\ C5_Attempt(r)
            /\ pc[r] = "insert" /\ pc'[r] # "insert"

\* C29: only trigger attempts change the ledger.  GET /, GET /health, the
\* listing, OPTIONS requests and requests for unknown routes never append,
\* and none of them sends a request to Jenkins.
C29_OnlyTriggersWrite ==
    /\ [](\A r \in Slots :
            C29_NoTrigger(r) =>
                /\ sent[r] = <<>>
                /\ call[r].appends = 0
                /\ call[r].rowids = {})
    /\ [][C29_Step]_vars

\* an answered request for an unknown route, after an attempt was recorded
C29_Witness ==
    \E r \in Slots :
        /\ pc[r] = "done"
        /\ req[r].path = "/api/v1/unknown"
        /\ resp[r].status = StatusOK
        /\ \E q \in Slots : q < r /\ call[q].inserted

\* the number of "/" in s
C30_Slashes(s) == Cardinality({i \in 1..Len(s) : s[i] = "/"})

\* TriggerBuild has returned a build id for slot r
C30_HasBuildID(r) ==
    call[r].resolved /\ call[r].result.build_id # <<>>

\* C30: every non-empty build id TriggerBuild returns has exactly two
\* segments around one "/" and a non-empty build number, so that
\* GetBuildStatus accepts it as it is.
C30_BuildIDCanonical ==
    \A r \in Slots :
        C30_HasBuildID(r) =>
            LET id == call[r].result.build_id
            IN  /\ C30_Slashes(id) = 1
                /\ id[Len(id)] # "/"
                /\ GetBuildStatusError(id).isNil

\* what the code guarantees: one "/" in every build id; the build number is
\* empty when the Location holds an empty segment after the job name
C30_TwoSegments ==
    \A r \in Slots :
        C30_HasBuildID(r) =>
            LET id == call[r].result.build_id
            IN  /\ C30_Slashes(id) = 1
                /\ GetBuildStatusError(id).msg \in {"", "build number cannot be empty"}

====
